---- MODULE Spec2Model ----
(***************************************************************************)
(* State-machine model of the WhisperBrain conversational session engine:  *)
(* ConversationMemory (app/services/memory_manager.py), RateLimiter        *)
(* (app/middleware/rate_limiter.py), SessionManager (app/models/session.py)*)
(* ReconnectionManager (app/services/reconnection_manager.py) and the      *)
(* per-connection control loop voice_pipeline (app/ws.py).                 *)
(***************************************************************************)
EXTENDS Integers, Sequences, FiniteSets, TLC

VARIABLES
    \* ---- ConversationMemory ----
    mem_cfg,        \* [max_tokens, max_messages, summarize_threshold]
    messages,       \* self.messages: sequence of turn records
    total_tokens,   \* self.total_tokens
    mem_clock,      \* value datetime.now() would return (ticks)
    adds,           \* number of add_message calls made so far
    last_passes,    \* which passes of _manage_memory ran in the last add_message
    last_summarize, \* the list _summarize_old_messages found and the list and total it left, in that call
    last_compress,  \* the list _compress_context found and the list it left, in that call
    last_context,   \* the last get_context call since then: its argument and its result
    \* ---- RateLimiter and the rate-limited request handlers ----
    rl_cfg,         \* [requests_per_minute, requests_per_hour, requests_per_day]
    request_history,\* self.request_history: identifier -> list of timestamps
    rl_keys,        \* the identifiers self.request_history has a key for
    rl_last,        \* the last get_remaining_requests call since then: arguments and result
    rl_now,         \* value time.time() would return (seconds)
    rl_ticks,       \* number of clock advances so far
    rl_calls,       \* log of the is_allowed calls made for identifiers since their last reset
    h_pc,           \* position of each request handler
    \* ---- SessionManager (_session_manager) and the voice_pipeline loops ----
    sessions,       \* self.sessions: session_id -> session object (index in session_objs)
    session_objs,   \* the UserSession objects created so far
    wall_clock,     \* value datetime.now() would return (minutes)
    conn,           \* per connection: the local state of its voice_pipeline call
    \* ---- ReconnectionManager (_reconnection_manager) and its callers ----
    rc_cfg,         \* [max_attempts, base_delay], read from the preferences at construction
    auto_reconnect, \* the "connection.auto_reconnect" preference
    reconnect_attempts, \* self.reconnect_attempts
    is_reconnecting,    \* self.is_reconnecting
    rc,             \* per caller: the state of its attempt_reconnect call
    rc_started,     \* number of attempt_reconnect calls made so far
    \* ---- direct use of the SessionManager interface ----
    reg_last,       \* the last SessionManager call made: what it was given and returned
    reg_ticks,      \* number of clock advances between SessionManager calls so far
    \* ---- ContextAnalyzer and the conversation history handed to it ----
    an_history,     \* conversation_history: sequence of turn records
    an_last         \* the last ContextAnalyzer call since then: its arguments and its result

memVars == <<mem_cfg, messages, total_tokens, mem_clock, adds, last_passes, last_summarize,
            last_compress, last_context>>

rlVars == <<rl_cfg, request_history, rl_keys, rl_last, rl_now, rl_ticks, rl_calls, h_pc>>

connVars == <<sessions, session_objs, wall_clock, conn>>

rcVars == <<rc_cfg, auto_reconnect, reconnect_attempts, is_reconnecting, rc, rc_started>>

regVars == <<reg_last, reg_ticks>>

anVars == <<an_history, an_last>>

vars == <<memVars, rlVars, connVars, rcVars, regVars, anVars>>

\* what an operation of one component leaves alone in the others
outsideMem == <<rlVars, connVars, rcVars, regVars, anVars>>

outsideRL == <<memVars, connVars, rcVars, regVars, anVars>>

outsideConn == <<memVars, rlVars, rcVars, regVars, anVars>>

outsideRc == <<memVars, rlVars, connVars, regVars, anVars>>

outsideReg == <<conn, memVars, rlVars, rcVars, anVars>>

outsideAn == <<memVars, rlVars, connVars, rcVars, regVars>>

(***************************************************************************)
(* Bounds of the model                                                     *)
(***************************************************************************)
MaxAdds == 5

\* add_message calls in a conversation that is summarized more than once
MaxSummAdds == 7

MaxCalls == 4

MaxTicks == 2

MaxSegments == 2

\* audio segments sent by the client of a conversation followed on its own
MaxTurns == 4

MaxWallTicks == 1

MaxRcCalls == 3

MaxObjects == 2

MaxRegTicks == 2

\* words of a question put to the ContextAnalyzer
MaxWords == 2

\* turns of the history handed to the ContextAnalyzer
MaxHistory == 3

\* audio frames received by a connection whose voice-activity gate is on
MaxFrames == 3

(***************************************************************************)
(* Generic helpers (Python list semantics)                                 *)
(***************************************************************************)
Min(a, b) == IF a <= b THEN a ELSE b

Max(a, b) == IF a >= b THEN a ELSE b

\* s[-n:] in Python, for any integer n
LastN(s, n) ==
    IF n = 0 THEN s
    ELSE IF n > 0 THEN SubSeq(s, Max(1, Len(s) - n + 1), Len(s))
    ELSE SubSeq(s, Min(Len(s), -n) + 1, Len(s))

\* s[:-n] in Python, for n > 0
AllButLastN(s, n) == SubSeq(s, 1, Len(s) - n)

SelectSeqBy(s, Test(_)) == SelectSeq(s, Test)

(***************************************************************************)
(* ConversationMemory                                                      *)
(***************************************************************************)
\* A turn's content is represented by its length in characters and by whether
\* it contains one of the importance keywords.
\* The (role, content) pairs add_message is called with.
Turns == { [role |-> "user",      len |-> 9,   important |-> FALSE],
           [role |-> "user",      len |-> 14,  important |-> TRUE],
           [role |-> "assistant", len |-> 130, important |-> FALSE] }

MemConfigs == { [max_tokens |-> 12,   max_messages |-> 4,  summarize_threshold |-> 4],
                [max_tokens |-> 2000, max_messages |-> 3,  summarize_threshold |-> 15],
                [max_tokens |-> 12,   max_messages |-> 10, summarize_threshold |-> 15],
                [max_tokens |-> 2000, max_messages |-> 10, summarize_threshold |-> 4] }

ClockSteps == {0, 1}

RoleLen(role) ==
    CASE role = "user" -> 4
      [] role = "assistant" -> 9
      [] role = "system" -> 6

_estimate_tokens(len) == len \div 4

_is_important(content) == content.important

_calculate_total_tokens(msgs) ==
    LET RECURSIVE Sum(_)
        Sum(i) == IF i = 0 THEN 0 ELSE msgs[i].tokens + Sum(i - 1)
    IN Sum(Len(msgs))

\* len(" | ".join(f"{role.capitalize()}: {content}")), content cut to 100 chars + "..."
_create_summary(msgs) ==
    LET PartLen(m) == RoleLen(m.role) + 2 + (IF m.len > 100 THEN 103 ELSE m.len)
        RECURSIVE Sum(_)
        Sum(i) == IF i = 0 THEN 0 ELSE PartLen(msgs[i]) + Sum(i - 1)
    IN Sum(Len(msgs)) + 3 * (Len(msgs) - 1)

SummaryPrefixLen == 31

\* list.sort(key=timestamp): stable
SortByTimestamp(msgs) ==
    LET Insert(sorted, m) ==
            LET k == Cardinality({i \in 1..Len(sorted) : sorted[i].ts <= m.ts})
            IN SubSeq(sorted, 1, k) \o <<m>> \o SubSeq(sorted, k + 1, Len(sorted))
        RECURSIVE Go(_)
        Go(i) == IF i = 0 THEN <<>> ELSE Insert(Go(i - 1), msgs[i])
    IN Go(Len(msgs))

\* important + recent, deduplicated by object identity, first occurrence kept
CombineDedup(important, recent) ==
    LET all == important \o recent
        RECURSIVE Go(_)
        Go(i) == IF i = 0 THEN <<>>
                 ELSE LET prev == Go(i - 1)
                      IN IF \E j \in 1..Len(prev) : prev[j].uid = all[i].uid
                         THEN prev ELSE Append(prev, all[i])
    IN Go(Len(all))

ImportantOf(msgs) == SelectSeq(msgs, LAMBDA m : m.important)

\* variant: the running total is not recomputed after the replacement
_summarize_old_messages_stale(msgs, total, now) ==
    IF Len(msgs) <= 2 THEN [messages |-> msgs, total_tokens |-> total]
    ELSE LET to_summarize == AllButLastN(msgs, 4)
             recent == LastN(msgs, 4)
         IN IF to_summarize = <<>> THEN [messages |-> msgs, total_tokens |-> total]
            ELSE LET summary_len == _create_summary(to_summarize)
                     new == << [uid |-> 0 - msgs[Len(msgs)].uid, role |-> "system",
                                len |-> SummaryPrefixLen + summary_len,
                                ts |-> now,
                                tokens |-> _estimate_tokens(summary_len),
                                important |-> FALSE, is_summary |-> TRUE] >> \o recent
                 IN [messages |-> new, total_tokens |-> total]

\* variant: keep_recent = 2
_summarize_old_messages_keep_two(msgs, total, now) ==
    IF Len(msgs) <= 2 THEN [messages |-> msgs, total_tokens |-> total]
    ELSE LET to_summarize == AllButLastN(msgs, 2)
             recent == LastN(msgs, 2)
         IN IF to_summarize = <<>> THEN [messages |-> msgs, total_tokens |-> total]
            ELSE LET summary_len == _create_summary(to_summarize)
                     new == << [uid |-> 0 - msgs[Len(msgs)].uid, role |-> "system",
                                len |-> SummaryPrefixLen + summary_len,
                                ts |-> now,
                                tokens |-> _estimate_tokens(summary_len),
                                important |-> FALSE, is_summary |-> TRUE] >> \o recent
                 IN [messages |-> new, total_tokens |-> _calculate_total_tokens(new)]

_summarize_old_messages(msgs, total, now) ==
    IF Len(msgs) <= 2 THEN [messages |-> msgs, total_tokens |-> total]
    ELSE LET to_summarize == AllButLastN(msgs, 4)
             recent == LastN(msgs, 4)
         IN IF to_summarize = <<>> THEN [messages |-> msgs, total_tokens |-> total]
            ELSE LET summary_len == _create_summary(to_summarize)
                     \* a fresh object: identified by the turn whose append created it
                     new == << [uid |-> 0 - msgs[Len(msgs)].uid, role |-> "system",
                                len |-> SummaryPrefixLen + summary_len,
                                ts |-> now,
                                tokens |-> _estimate_tokens(summary_len),
                                important |-> FALSE, is_summary |-> TRUE] >> \o recent
                 IN [messages |-> new, total_tokens |-> _calculate_total_tokens(new)]

\* variant: the loop runs while more than one element is left
RECURSIVE TrimToTokens_to_one(_, _)
TrimToTokens_to_one(combined, max_tokens) ==
    IF _calculate_total_tokens(combined) > max_tokens /\ Len(combined) > 1
    THEN TrimToTokens_to_one(Tail(combined), max_tokens)
    ELSE combined

RECURSIVE TrimToTokens(_, _)
TrimToTokens(combined, max_tokens) ==
    IF _calculate_total_tokens(combined) > max_tokens /\ Len(combined) > 2
    THEN TrimToTokens(Tail(combined), max_tokens)
    ELSE combined

\* variant: the recent and the non-important turns are the ones retained
_compress_context_nonimportant(msgs, cfg) ==
    LET combined == SortByTimestamp(
                       CombineDedup(LastN(msgs, 4), SelectSeq(msgs, LAMBDA m : ~m.important)))
        kept == TrimToTokens(combined, cfg.max_tokens)
    IN [messages |-> kept, total_tokens |-> _calculate_total_tokens(kept)]

_compress_context(msgs, cfg) ==
    LET combined == SortByTimestamp(CombineDedup(ImportantOf(msgs), LastN(msgs, 4)))
        kept == TrimToTokens(combined, cfg.max_tokens)
    IN [messages |-> kept, total_tokens |-> _calculate_total_tokens(kept)]

\* variant: the oldest max_messages turns count as recent (messages[:max_messages])
_trim_messages_oldest(msgs, cfg) ==
    LET combined == SortByTimestamp(
                       CombineDedup(ImportantOf(msgs),
                                    SubSeq(msgs, 1, Min(Len(msgs), cfg.max_messages))))
        kept == LastN(combined, cfg.max_messages)
    IN [messages |-> kept, total_tokens |-> _calculate_total_tokens(kept)]

\* variant: the combined list is not cut to max_messages
_trim_messages_unsliced(msgs, cfg) ==
    LET combined == SortByTimestamp(
                       CombineDedup(ImportantOf(msgs), LastN(msgs, cfg.max_messages)))
    IN [messages |-> combined, total_tokens |-> _calculate_total_tokens(combined)]

\* variant: nothing is trimmed
_trim_messages_noop(msgs, cfg) ==
    [messages |-> msgs, total_tokens |-> _calculate_total_tokens(msgs)]

_trim_messages(msgs, cfg) ==
    LET combined == SortByTimestamp(
                       CombineDedup(ImportantOf(msgs), LastN(msgs, cfg.max_messages)))
        kept == LastN(combined, cfg.max_messages)
    IN [messages |-> kept, total_tokens |-> _calculate_total_tokens(kept)]

NoCompress == [ran |-> FALSE, input |-> <<>>, output |-> <<>>]

NoSummarize == [ran |-> FALSE, input |-> <<>>, output |-> <<>>, total_tokens |-> 0]

\* _manage_memory: the three passes in order; `now` is the clock at the summary
_manage_memory(msgs, total, cfg, now) ==
    LET s1 == IF Len(msgs) > cfg.summarize_threshold
              THEN _summarize_old_messages(msgs, total, now)
              ELSE [messages |-> msgs, total_tokens |-> total]
        s2 == IF s1.total_tokens > cfg.max_tokens
              THEN _compress_context(s1.messages, cfg)
              ELSE s1
        s3 == IF Len(s2.messages) > cfg.max_messages
              THEN _trim_messages(s2.messages, cfg)
              ELSE s2
    IN [messages |-> s3.messages, total_tokens |-> s3.total_tokens,
        summarize |-> IF Len(msgs) > cfg.summarize_threshold
                      THEN [ran |-> TRUE, input |-> msgs, output |-> s1.messages,
                            total_tokens |-> s1.total_tokens]
                      ELSE NoSummarize,
        compress |-> IF s1.total_tokens > cfg.max_tokens
                     THEN [ran |-> TRUE, input |-> s1.messages, output |-> s2.messages]
                     ELSE NoCompress,
        passes |-> (IF Len(msgs) > cfg.summarize_threshold /\ s1.messages # msgs
                        THEN {"summarize"} ELSE {})
                   \cup (IF s1.total_tokens > cfg.max_tokens THEN {"compress"} ELSE {})
                   \cup (IF Len(s2.messages) > cfg.max_messages THEN {"trim"} ELSE {})]

\* add_message(role, content) at clock value t1; the summary, if any, is
\* stamped at clock value t2 >= t1
add_message(msgs, total, cfg, uid, role, content, t1, t2) ==
    LET message == [uid |-> uid, role |-> role, len |-> content.len, ts |-> t1,
                    tokens |-> _estimate_tokens(content.len),
                    important |-> _is_important(content), is_summary |-> FALSE]
    IN _manage_memory(Append(msgs, message), total + message.tokens, cfg, t2)

\* max_tokens=None, the default of get_context
NoLimit == 0 - 1

\* the values get_context is called with (ws.py passes 2000)
ContextLimits == {NoLimit, 0, 3, 2000}

NoContext == [called |-> FALSE, max_tokens |-> NoLimit, context |-> <<>>]

\* get_context(max_tokens): the most recent turns that fit the limit, oldest
\* first, each reduced to role and content
get_context(msgs, cfg, max_tokens) ==
    LET limit == IF max_tokens = NoLimit \/ max_tokens = 0
                 THEN cfg.max_tokens ELSE max_tokens
        \* the loop over reversed(self.messages): i is the next index to look at
        RECURSIVE Select(_, _, _)
        Select(i, selected, token_count) ==
            IF i = 0 THEN selected
            ELSE IF token_count + msgs[i].tokens <= limit
                 THEN Select(i - 1, <<msgs[i]>> \o selected, token_count + msgs[i].tokens)
                 ELSE selected
        selected == Select(Len(msgs), <<>>, 0)
    IN [i \in 1..Len(selected) |-> [role |-> selected[i].role, len |-> selected[i].len]]

MemStart ==
    /\ messages = <<>>
    /\ total_tokens = 0
    /\ mem_clock = 0
    /\ adds = 0
    /\ last_passes = {}
    /\ last_summarize = NoSummarize
    /\ last_compress = NoCompress
    /\ last_context = NoContext

MemInit ==
    /\ mem_cfg \in MemConfigs
    /\ MemStart

\* add_message(role, content) with any turn; the clock has advanced by one
\* of `gaps` since its last reading
AddMessageStep(gaps) ==
    /\ \E turn \in Turns, d1 \in gaps, d2 \in ClockSteps :
          LET r == add_message(messages, total_tokens, mem_cfg, adds + 1, turn.role, turn,
                               mem_clock + d1, mem_clock + d1 + d2)
          IN /\ d2 = 0 \/ "summarize" \in r.passes
             /\ messages' = r.messages
             /\ total_tokens' = r.total_tokens
             /\ last_passes' = r.passes
             /\ last_summarize' = r.summarize
             /\ last_compress' = r.compress
             /\ last_context' = NoContext
             /\ mem_clock' = mem_clock + d1 + d2
    /\ adds' = adds + 1
    /\ UNCHANGED <<mem_cfg, outsideMem>>

AddMessage ==
    /\ adds < MaxAdds
    /\ AddMessageStep(ClockSteps)

Clear ==
    /\ messages # <<>>
    /\ messages' = <<>>
    /\ total_tokens' = 0
    /\ last_passes' = {}
    /\ last_summarize' = NoSummarize
    /\ last_compress' = NoCompress
    /\ last_context' = NoContext
    /\ UNCHANGED <<mem_cfg, mem_clock, adds, outsideMem>>

MemNext == AddMessage \/ Clear

\* variant: the turns that were not selected are dropped from self.messages
GetContext_consuming ==
    /\ \E max_tokens \in ContextLimits :
          LET context == get_context(messages, mem_cfg, max_tokens)
          IN /\ last_context' = [called |-> TRUE, max_tokens |-> max_tokens,
                                  context |-> context]
             /\ messages' = SubSeq(messages, Len(messages) - Len(context) + 1, Len(messages))
    /\ UNCHANGED <<mem_cfg, total_tokens, mem_clock, adds, last_passes,
                   last_summarize, last_compress, outsideMem>>

GetContext ==
    /\ \E max_tokens \in ContextLimits :
          last_context' = [called |-> TRUE, max_tokens |-> max_tokens,
                           context |-> get_context(messages, mem_cfg, max_tokens)]
    /\ UNCHANGED <<mem_cfg, messages, total_tokens, mem_clock, adds, last_passes,
                   last_summarize, last_compress, outsideMem>>

\* limits __init__ is given by a caller that does not use MEMORY_CONFIG:
\* __init__ stores whatever it is given
UnusableConfigs == { [max_tokens |-> 0,    max_messages |-> 4,     summarize_threshold |-> 15],
                     [max_tokens |-> 2000, max_messages |-> 0,     summarize_threshold |-> 15],
                     [max_tokens |-> 0 - 5, max_messages |-> 0 - 1, summarize_threshold |-> 4] }

\* ConversationMemory(max_tokens, max_messages, summarize_threshold) with any
\* limits: the constructor returns an instance
AnyCfgInit ==
    /\ mem_cfg \in MemConfigs \cup UnusableConfigs
    /\ MemStart

\* the configurations of the memories that are read from: one whose passes
\* run within a few turns, and the shipped one
CtxConfigs == { [max_tokens |-> 12, max_messages |-> 4, summarize_threshold |-> 4],
                [max_tokens |-> 2000, max_messages |-> 10, summarize_threshold |-> 15] }

CtxInit ==
    /\ mem_cfg \in CtxConfigs
    /\ MemStart

\* the memory as voice_pipeline uses it: add_message, get_context, clear
CtxNext == AddMessage \/ Clear \/ GetContext

\* configurations under which the summarization pass runs again and again:
\* no later pass touches its result (the first two), or the compression or
\* the count-trim pass follows it
SummConfigs == { [max_tokens |-> 2000, max_messages |-> 10, summarize_threshold |-> 5],
                 [max_tokens |-> 2000, max_messages |-> 10, summarize_threshold |-> 4],
                 [max_tokens |-> 12,   max_messages |-> 4,  summarize_threshold |-> 4] }

SummInit ==
    /\ mem_cfg \in SummConfigs
    /\ MemStart

\* add_message in a conversation long enough for a second summarization,
\* each call at a later reading of the clock than the one before
SummAddMessage ==
    /\ adds < MaxSummAdds
    /\ AddMessageStep({1})

SummNext == SummAddMessage \/ Clear

(***************************************************************************)
(* RateLimiter                                                             *)
(***************************************************************************)
Identifiers == {"u1", "u2"}

Handlers == {"h1", "h2"}

RLConfigs == { [requests_per_minute |-> 2, requests_per_hour |-> 3, requests_per_day |-> 4],
               [requests_per_minute |-> 3, requests_per_hour |-> 2, requests_per_day |-> 4],
               [requests_per_minute |-> 1, requests_per_hour |-> 4, requests_per_day |-> 2] }

\* RateLimiter.__init__ defaults, the configuration of the global _rate_limiter
DefaultRLConfig == [requests_per_minute |-> 10, requests_per_hour |-> 100,
                    requests_per_day |-> 1000]

TimeSteps == {1, 60, 3600, 86400}

MinuteWindow == 60

HourWindow == 3600

DayWindow == 86400

\* [ts for ts in history if ts > cutoff]
Newer(history, cutoff) == SelectSeq(history, LAMBDA ts : ts > cutoff)

NoReason == [limit |-> 0, period |-> "none"]

\* variant: the minute ceiling is compared with > instead of >=
is_allowed_off_by_one(history, cfg, current_time) ==
    LET pruned == Newer(history, current_time - DayWindow)
        recent_minute == Newer(pruned, current_time - MinuteWindow)
        recent_hour == Newer(pruned, current_time - HourWindow)
        recent_day == Newer(pruned, current_time - DayWindow)
    IN IF Len(recent_minute) > cfg.requests_per_minute
       THEN [allowed |-> FALSE, history |-> pruned,
             reason |-> [limit |-> cfg.requests_per_minute, period |-> "minute"]]
       ELSE IF Len(recent_hour) >= cfg.requests_per_hour
       THEN [allowed |-> FALSE, history |-> pruned,
             reason |-> [limit |-> cfg.requests_per_hour, period |-> "hour"]]
       ELSE IF Len(recent_day) >= cfg.requests_per_day
       THEN [allowed |-> FALSE, history |-> pruned,
             reason |-> [limit |-> cfg.requests_per_day, period |-> "day"]]
       ELSE [allowed |-> TRUE, history |-> Append(pruned, current_time),
             reason |-> NoReason]

\* variant: the counts are taken from a snapshot that misses the append of a
\* call running at the same time (check and append not in one step)
is_allowed_stale_check(history, cfg, current_time) ==
    LET pruned == Newer(history, current_time - DayWindow)
        snapshot == IF pruned = <<>> THEN pruned ELSE SubSeq(pruned, 1, Len(pruned) - 1)
        recent_minute == Newer(snapshot, current_time - MinuteWindow)
        recent_hour == Newer(snapshot, current_time - HourWindow)
        recent_day == Newer(snapshot, current_time - DayWindow)
    IN IF Len(recent_minute) >= cfg.requests_per_minute
       THEN [allowed |-> FALSE, history |-> pruned,
             reason |-> [limit |-> cfg.requests_per_minute, period |-> "minute"]]
       ELSE IF Len(recent_hour) >= cfg.requests_per_hour
       THEN [allowed |-> FALSE, history |-> pruned,
             reason |-> [limit |-> cfg.requests_per_hour, period |-> "hour"]]
       ELSE IF Len(recent_day) >= cfg.requests_per_day
       THEN [allowed |-> FALSE, history |-> pruned,
             reason |-> [limit |-> cfg.requests_per_day, period |-> "day"]]
       ELSE [allowed |-> TRUE, history |-> Append(pruned, current_time),
             reason |-> NoReason]

\* variant: a rejected call is recorded as well
is_allowed_records_rejected(history, cfg, current_time) ==
    LET pruned == Newer(history, current_time - DayWindow)
        recent_minute == Newer(pruned, current_time - MinuteWindow)
        recent_hour == Newer(pruned, current_time - HourWindow)
        recent_day == Newer(pruned, current_time - DayWindow)
    IN IF Len(recent_minute) >= cfg.requests_per_minute
       THEN [allowed |-> FALSE, history |-> Append(pruned, current_time),
             reason |-> [limit |-> cfg.requests_per_minute, period |-> "minute"]]
       ELSE IF Len(recent_hour) >= cfg.requests_per_hour
       THEN [allowed |-> FALSE, history |-> Append(pruned, current_time),
             reason |-> [limit |-> cfg.requests_per_hour, period |-> "hour"]]
       ELSE IF Len(recent_day) >= cfg.requests_per_day
       THEN [allowed |-> FALSE, history |-> Append(pruned, current_time),
             reason |-> [limit |-> cfg.requests_per_day, period |-> "day"]]
       ELSE [allowed |-> TRUE, history |-> Append(pruned, current_time),
             reason |-> NoReason]

\* variant: the day ceiling is not checked
is_allowed_no_day_check(history, cfg, current_time) ==
    LET pruned == Newer(history, current_time - DayWindow)
        recent_minute == Newer(pruned, current_time - MinuteWindow)
        recent_hour == Newer(pruned, current_time - HourWindow)
    IN IF Len(recent_minute) >= cfg.requests_per_minute
       THEN [allowed |-> FALSE, history |-> pruned,
             reason |-> [limit |-> cfg.requests_per_minute, period |-> "minute"]]
       ELSE IF Len(recent_hour) >= cfg.requests_per_hour
       THEN [allowed |-> FALSE, history |-> pruned,
             reason |-> [limit |-> cfg.requests_per_hour, period |-> "hour"]]
       ELSE [allowed |-> TRUE, history |-> Append(pruned, current_time),
             reason |-> NoReason]

\* is_allowed(identifier, current_time) on the identifier's list `history`:
\* the returned pair and the list left behind
is_allowed(history, cfg, current_time) ==
    LET pruned == Newer(history, current_time - DayWindow)
        recent_minute == Newer(pruned, current_time - MinuteWindow)
        recent_hour == Newer(pruned, current_time - HourWindow)
        recent_day == Newer(pruned, current_time - DayWindow)
    IN IF Len(recent_minute) >= cfg.requests_per_minute
       THEN [allowed |-> FALSE, history |-> pruned,
             reason |-> [limit |-> cfg.requests_per_minute, period |-> "minute"]]
       ELSE IF Len(recent_hour) >= cfg.requests_per_hour
       THEN [allowed |-> FALSE, history |-> pruned,
             reason |-> [limit |-> cfg.requests_per_hour, period |-> "hour"]]
       ELSE IF Len(recent_day) >= cfg.requests_per_day
       THEN [allowed |-> FALSE, history |-> pruned,
             reason |-> [limit |-> cfg.requests_per_day, period |-> "day"]]
       ELSE [allowed |-> TRUE, history |-> Append(pruned, current_time),
             reason |-> NoReason]

\* the periods get_remaining_requests is asked about; "week" is none it knows
Periods == {"minute", "hour", "day", "week"}

NoRemaining == [called |-> FALSE, id |-> "none", period |-> "none", result |-> 0]

\* get_remaining_requests(identifier, period) at time current_time, on the
\* identifier's list `history`: the number returned, and whether
\* self.request_history[identifier] was read (a defaultdict makes the key
\* on a read)
get_remaining_requests(history, cfg, period, current_time) ==
    LET known == period \in {"minute", "hour", "day"}
        limit == IF period = "minute" THEN cfg.requests_per_minute
                 ELSE IF period = "hour" THEN cfg.requests_per_hour
                 ELSE cfg.requests_per_day
        window == IF period = "minute" THEN MinuteWindow
                  ELSE IF period = "hour" THEN HourWindow
                  ELSE DayWindow
        recent == Newer(history, current_time - window)
    IN  IF ~known THEN [result |-> 0, read |-> FALSE]
        ELSE [result |-> IF limit - Len(recent) > 0 THEN limit - Len(recent) ELSE 0,
              read |-> TRUE]

RLStart ==
    /\ request_history = [i \in Identifiers |-> <<>>]
    /\ rl_keys = {}
    /\ rl_last = NoRemaining
    /\ rl_now = 0
    /\ rl_ticks = 0
    /\ rl_calls = <<>>
    /\ h_pc = [h \in Handlers |-> "idle"]

RLInit ==
    /\ rl_cfg \in RLConfigs
    /\ RLStart

\* export_conversation up to its first await: the is_allowed call and, on
\* rejection, the HTTP 429
RLRequest(h) ==
    /\ h_pc[h] = "idle"
    /\ Len(rl_calls) < MaxCalls
    /\ \E id \in Identifiers :
          LET r == is_allowed(request_history[id], rl_cfg, rl_now)
          IN /\ request_history' = [request_history EXCEPT ![id] = r.history]
             /\ rl_keys' = rl_keys \cup {id}
             /\ rl_calls' = Append(rl_calls,
                                [id |-> id, time |-> rl_now, allowed |-> r.allowed,
                                 reason |-> r.reason, before |-> request_history[id],
                                 after |-> r.history])
             /\ h_pc' = [h_pc EXCEPT ![h] = IF r.allowed THEN "admitted" ELSE "idle"]
    /\ rl_last' = NoRemaining
    /\ UNCHANGED <<rl_cfg, rl_now, rl_ticks, outsideRL>>

\* the rest of an admitted request, after `await request.json()`
RLRespond(h) ==
    /\ h_pc[h] = "admitted"
    /\ h_pc' = [h_pc EXCEPT ![h] = "idle"]
    /\ rl_last' = NoRemaining
    /\ UNCHANGED <<rl_cfg, request_history, rl_keys, rl_now, rl_ticks, rl_calls, outsideRL>>

RLTick ==
    /\ rl_ticks < MaxTicks
    /\ \E d \in TimeSteps : rl_now' = rl_now + d
    /\ rl_ticks' = rl_ticks + 1
    /\ rl_last' = NoRemaining
    /\ UNCHANGED <<rl_cfg, request_history, rl_keys, rl_calls, h_pc, outsideRL>>

\* RateLimiter.reset(identifier): the identifier's key and list are deleted
\* when the key is there
reset(history, keys, identifier) ==
    IF identifier \in keys
    THEN [request_history |-> [history EXCEPT ![identifier] = <<>>],
          keys |-> keys \ {identifier}]
    ELSE [request_history |-> history, keys |-> keys]

\* a call of reset(identifier), while the limiter takes calls; rl_calls is
\* the log of the is_allowed calls made for an identifier since its last reset
RLReset ==
    /\ \E id \in Identifiers :
          LET r == reset(request_history, rl_keys, id)
          IN /\ request_history' = r.request_history
             /\ rl_keys' = r.keys
             /\ rl_calls' = IF id \in rl_keys
                            THEN SelectSeq(rl_calls, LAMBDA e : e.id # id)
                            ELSE rl_calls
    /\ rl_last' = NoRemaining
    /\ UNCHANGED <<rl_cfg, rl_now, rl_ticks, h_pc, outsideRL>>

RLNext ==
    \/ \E h \in Handlers : RLRequest(h)
    \/ \E h \in Handlers : RLRespond(h)
    \/ RLTick
    \/ RLReset

\* a call of get_remaining_requests(identifier, period)
RLRemaining ==
    /\ \E id \in Identifiers, period \in Periods :
          LET r == get_remaining_requests(request_history[id], rl_cfg, period, rl_now)
          IN /\ rl_keys' = IF r.read THEN rl_keys \cup {id} ELSE rl_keys
             /\ rl_last' = [called |-> TRUE, id |-> id, period |-> period,
                            result |-> r.result]
    /\ UNCHANGED <<rl_cfg, request_history, rl_now, rl_ticks, rl_calls, h_pc, outsideRL>>

\* one caller making requests, and the limiter asked in between
RemNext ==
    \/ RLRequest("h1")
    \/ RLRespond("h1")
    \/ RLTick
    \/ RLReset
    \/ RLRemaining

(***************************************************************************)
(* SessionManager                                                          *)
(***************************************************************************)
SessionTimeoutMinutes == 30

\* UserSession.__init__ with a generated session_id: the id of the k-th object is k
UserSession(sid, now) ==
    [session_id |-> sid, created_at |-> now, last_activity |-> now,
     conversation_count |-> 0, is_active |-> TRUE]

\* SessionManager.create_session(): a new object under a generated id
create_session(reg, objs, now) ==
    LET oid == Len(objs) + 1
    IN [sessions |-> [k \in DOMAIN reg \cup {oid} |-> IF k = oid THEN oid ELSE reg[k]],
        session_objs |-> Append(objs, UserSession(oid, now)),
        session |-> oid]

\* variant: is_active is left as it was
deactivate_skipped(obj) == obj

\* UserSession.deactivate
deactivate(obj) == [obj EXCEPT !.is_active = FALSE]

\* SessionManager.remove_session(session_id)
remove_session(reg, objs, sid) ==
    IF sid \in DOMAIN reg
    THEN [sessions |-> [k \in DOMAIN reg \ {sid} |-> reg[k]],
          session_objs |-> [objs EXCEPT ![reg[sid]] = deactivate(objs[reg[sid]])]]
    ELSE [sessions |-> reg, session_objs |-> objs]

\* UserSession.increment_conversation (which calls update_activity)
increment_conversation(obj, now) ==
    [obj EXCEPT !.conversation_count = @ + 1, !.last_activity = now]

(***************************************************************************)
(* ContextAnalyzer (app/services/context_analyzer.py).  A text is the     *)
(* sequence of its characters, so that `in`, startswith, re.match and      *)
(* re.findall are computed on the characters as Python computes them.      *)
(***************************************************************************)
UpperCase == <<"A", "B", "C", "D", "E", "F", "G", "H", "I", "J", "K", "L", "M", "N", "O", "P", "Q", "R", "S", "T", "U", "V", "W", "X", "Y", "Z">>

LowerCase == <<"a", "b", "c", "d", "e", "f", "g", "h", "i", "j", "k", "l", "m", "n", "o", "p", "q", "r", "s", "t", "u", "v", "w", "x", "y", "z">>

Letters == {LowerCase[i] : i \in 1..Len(LowerCase)}

\* what \s matches among the characters of the texts
Whitespace == {" "}

\* str.lower, on one character and on a text
LowerChar(ch) ==
    IF \E i \in 1..Len(UpperCase) : UpperCase[i] = ch
    THEN LowerCase[CHOOSE i \in 1..Len(UpperCase) : UpperCase[i] = ch]
    ELSE ch

lower(s) == [i \in 1..Len(s) |-> LowerChar(s[i])]

\* str.strip
RECURSIVE strip(_)
strip(s) ==
    IF s = <<>> THEN s
    ELSE IF Head(s) \in Whitespace THEN strip(Tail(s))
    ELSE IF s[Len(s)] \in Whitespace THEN strip(SubSeq(s, 1, Len(s) - 1))
    ELSE s

\* s.startswith(pat)
startswith(s, pat) == Len(s) >= Len(pat) /\ SubSeq(s, 1, Len(pat)) = pat

\* pat in s
contains(pat, s) ==
    \E i \in 1..(Len(s) - Len(pat) + 1) : SubSeq(s, i, i + Len(pat) - 1) = pat

\* any(p in s for p in pats)
any_in(pats, s) == \E k \in 1..Len(pats) : contains(pats[k], s)

\* f' {s} '
with_spaces(s) == <<" ">> \o s \o <<" ">>

\* re.findall(r'\b[a-z]{4,}\b', s) on a lowered text of letters, blanks and
\* punctuation: the maximal runs of letters that are four letters or more
RECURSIVE findall_words(_, _)
findall_words(s, run) ==
    IF s = <<>> THEN (IF Len(run) >= 4 THEN <<run>> ELSE <<>>)
    ELSE IF Head(s) \in Letters THEN findall_words(Tail(s), Append(run, Head(s)))
    ELSE (IF Len(run) >= 4 THEN <<run>> ELSE <<>>) \o findall_words(Tail(s), <<>>)

\* [w for w in words if w not in common]
RECURSIVE not_common(_, _)
not_common(words, common) ==
    IF words = <<>> THEN <<>>
    ELSE (IF Head(words) \in common THEN <<>> ELSE <<Head(words)>>)
         \o not_common(Tail(words), common)

\* xs[:n]
first_n(xs, n) == SubSeq(xs, 1, IF Len(xs) < n THEN Len(xs) ELSE n)

\* xs[start:] with Python's reading of a negative or too large start
slice_from(xs, start) ==
    LET from == IF start < 0
                THEN (IF Len(xs) + start < 0 THEN 0 ELSE Len(xs) + start)
                ELSE (IF start > Len(xs) THEN Len(xs) ELSE start)
    IN  SubSeq(xs, from + 1, Len(xs))

\* self.context_keywords (20-27)
context_keywords == <<
    <<"i", "t">>,
    <<"t", "h", "a", "t">>,
    <<"t", "h", "i", "s">>,
    <<"t", "h", "e", "m">>,
    <<"t", "h", "o", "s", "e">>,
    <<"t", "h", "e", "s", "e">>,
    <<"w", "h", "a", "t", " ", "a", "b", "o", "u", "t">>,
    <<"h", "o", "w", " ", "a", "b", "o", "u", "t">>,
    <<"a", "n", "d">>,
    <<"a", "l", "s", "o">>,
    <<"t", "o", "o">>,
    <<"p", "r", "e", "v", "i", "o", "u", "s">>,
    <<"e", "a", "r", "l", "i", "e", "r">>,
    <<"b", "e", "f", "o", "r", "e">>,
    <<"m", "e", "n", "t", "i", "o", "n", "e", "d">>,
    <<"s", "a", "i", "d">>,
    <<"s", "a", "m", "e">>,
    <<"s", "i", "m", "i", "l", "a", "r">>,
    <<"l", "i", "k", "e", " ", "t", "h", "a", "t">>,
    <<"a", "s", " ", "w", "e", "l", "l">>,
    <<"f", "o", "l", "l", "o", "w", " ", "u", "p">>,
    <<"c", "o", "n", "t", "i", "n", "u", "e">>,
    <<"m", "o", "r", "e">>,
    <<"e", "l", "s", "e">>,
    <<"w", "h", "a", "t", " ", "e", "l", "s", "e">>,
    <<"a", "n", "y", "t", "h", "i", "n", "g", " ", "e", "l", "s", "e">>,
    <<"o", "t", "h", "e", "r">>,
    <<"a", "n", "o", "t", "h", "e", "r">>
>>

\* self.standalone_patterns (30-41): each is ^<words>\s+
standalone_patterns == <<
    <<"w", "h", "a", "t", " ", "i", "s">>,
    <<"w", "h", "a", "t", " ", "a", "r", "e">>,
    <<"w", "h", "o", " ", "i", "s">>,
    <<"w", "h", "e", "r", "e", " ", "i", "s">>,
    <<"w", "h", "e", "n", " ", "d", "i", "d">>,
    <<"h", "o", "w", " ", "d", "o">>,
    <<"t", "e", "l", "l", " ", "m", "e", " ", "a", "b", "o", "u", "t">>,
    <<"e", "x", "p", "l", "a", "i", "n">>,
    <<"d", "e", "f", "i", "n", "e">>,
    <<"d", "e", "s", "c", "r", "i", "b", "e">>
>>

\* reference_words of needs_context (65)
reference_words == <<
    <<" ", "i", "t", " ">>,
    <<" ", "t", "h", "a", "t", " ">>,
    <<" ", "t", "h", "i", "s", " ">>,
    <<" ", "t", "h", "e", "m", " ">>,
    <<" ", "t", "h", "o", "s", "e", " ">>,
    <<" ", "t", "h", "e", "s", "e", " ">>,
    <<" ", "t", "h", "e", "y", " ">>,
    <<" ", "i", "t", "s", " ">>,
    <<" ", "t", "h", "e", "i", "r", " ">>
>>

\* strong_references of _references_previous (105)
strong_references == <<
    <<" ", "i", "t", " ">>,
    <<" ", "t", "h", "a", "t", " ">>,
    <<" ", "t", "h", "i", "s", " ">>,
    <<" ", "t", "h", "e", "m", " ">>,
    <<" ", "t", "h", "o", "s", "e", " ">>,
    <<" ", "t", "h", "e", "s", "e", " ">>,
    <<" ", "t", "h", "e", "y", " ">>
>>

\* follow_up_indicators of _is_follow_up (139-143)
follow_up_indicators == <<
    <<"w", "h", "a", "t", " ", "a", "b", "o", "u", "t">>,
    <<"h", "o", "w", " ", "a", "b", "o", "u", "t">>,
    <<"a", "n", "d">>,
    <<"a", "l", "s", "o">>,
    <<"t", "o", "o">>,
    <<"w", "h", "a", "t", " ", "e", "l", "s", "e">>,
    <<"a", "n", "y", "t", "h", "i", "n", "g", " ", "e", "l", "s", "e">>,
    <<"m", "o", "r", "e", " ", "a", "b", "o", "u", "t">>,
    <<"t", "e", "l", "l", " ", "m", "e", " ", "m", "o", "r", "e">>,
    <<"c", "o", "n", "t", "i", "n", "u", "e">>,
    <<"g", "o", " ", "o", "n">>,
    <<"k", "e", "e", "p", " ", "g", "o", "i", "n", "g">>
>>

\* common_words of _extract_topics (150-153)
common_words == {
    <<"t", "h", "e">>,
    <<"a">>,
    <<"a", "n">>,
    <<"i", "s">>,
    <<"a", "r", "e">>,
    <<"w", "a", "s">>,
    <<"w", "e", "r", "e">>,
    <<"b", "e">>,
    <<"b", "e", "e", "n">>,
    <<"h", "a", "v", "e">>,
    <<"h", "a", "s">>,
    <<"h", "a", "d">>,
    <<"d", "o">>,
    <<"d", "o", "e", "s">>,
    <<"d", "i", "d">>,
    <<"w", "i", "l", "l">>,
    <<"w", "o", "u", "l", "d">>,
    <<"c", "a", "n">>,
    <<"c", "o", "u", "l", "d">>,
    <<"s", "h", "o", "u", "l", "d">>,
    <<"m", "a", "y">>,
    <<"m", "i", "g", "h", "t">>,
    <<"t", "h", "i", "s">>,
    <<"t", "h", "a", "t">>,
    <<"t", "h", "e", "s", "e">>,
    <<"t", "h", "o", "s", "e">>,
    <<"i">>,
    <<"y", "o", "u">>,
    <<"h", "e">>,
    <<"s", "h", "e">>,
    <<"i", "t">>,
    <<"w", "e">>,
    <<"t", "h", "e", "y">>
}

\* common_words of _extract_topics_from_text (167-171)
common_words_text == {
    <<"t", "h", "e">>,
    <<"a">>,
    <<"a", "n">>,
    <<"i", "s">>,
    <<"a", "r", "e">>,
    <<"w", "a", "s">>,
    <<"w", "e", "r", "e">>,
    <<"b", "e">>,
    <<"b", "e", "e", "n">>,
    <<"h", "a", "v", "e">>,
    <<"h", "a", "s">>,
    <<"h", "a", "d">>,
    <<"d", "o">>,
    <<"d", "o", "e", "s">>,
    <<"d", "i", "d">>,
    <<"w", "i", "l", "l">>,
    <<"w", "o", "u", "l", "d">>,
    <<"c", "a", "n">>,
    <<"c", "o", "u", "l", "d">>,
    <<"s", "h", "o", "u", "l", "d">>,
    <<"m", "a", "y">>,
    <<"m", "i", "g", "h", "t">>,
    <<"t", "h", "i", "s">>,
    <<"t", "h", "a", "t">>,
    <<"t", "h", "e", "s", "e">>,
    <<"t", "h", "o", "s", "e">>,
    <<"i">>,
    <<"y", "o", "u">>,
    <<"h", "e">>,
    <<"s", "h", "e">>,
    <<"i", "t">>,
    <<"w", "e">>,
    <<"t", "h", "e", "y">>,
    <<"w", "h", "a", "t">>,
    <<"w", "h", "e", "r", "e">>,
    <<"w", "h", "e", "n">>,
    <<"w", "h", "o">>,
    <<"h", "o", "w">>,
    <<"w", "h", "y">>
}

\* ContextAnalyzer._is_standalone_question (91-99)
_is_standalone_question(question) ==
    LET question_lower == lower(question)
    IN  \E k \in 1..Len(standalone_patterns) :
            /\ startswith(question_lower, standalone_patterns[k])
            /\ Len(question_lower) > Len(standalone_patterns[k])
            /\ question_lower[Len(standalone_patterns[k]) + 1] \in Whitespace

\* ContextAnalyzer._is_follow_up (137-145)
_is_follow_up(question) == any_in(follow_up_indicators, question)

\* ContextAnalyzer._extract_topics_from_text (165-175)
_extract_topics_from_text(text) ==
    first_n(not_common(findall_words(lower(text), <<>>), common_words_text), 5)

\* ContextAnalyzer._extract_topics (147-163)
RECURSIVE _extract_topics(_)
_extract_topics(msgs) ==
    IF msgs = <<>> THEN <<>>
    ELSE first_n(not_common(findall_words(lower(Head(msgs).content), <<>>), common_words), 5)
         \o _extract_topics(Tail(msgs))

ToSet(xs) == {xs[i] : i \in 1..Len(xs)}

\* ContextAnalyzer._references_previous (101-135)
_references_previous(question, history) ==
    LET question_with_spaces == with_spaces(lower(question))
        question_lower == lower(question)
        has_strong_reference ==
            \/ any_in(strong_references, question_with_spaces)
            \/ startswith(question_lower, <<"w", "h", "a", "t", " ", "i", "s", " ", "i", "t">>)
            \/ /\ startswith(question_lower, <<"h", "o", "w", " ", "d", "o", " ", "i">>)
               /\ contains(<<" ", "i", "t">>, question_lower)
        has_reference == any_in(context_keywords, question)
        recent_topics == _extract_topics(slice_from(history, 0 - 4))
        question_topics == _extract_topics_from_text(question)
    IN  IF has_strong_reference THEN TRUE
        ELSE IF ~has_reference THEN FALSE
        ELSE IF /\ recent_topics # <<>>
                /\ question_topics # <<>>
                /\ ToSet(recent_topics) \cap ToSet(question_topics) # {}
             THEN TRUE
        ELSE has_reference

\* needs_context without its first check: an empty history is analysed like any other
needs_context_unguarded(current_question, conversation_history) ==
    LET question_lower == strip(lower(current_question))
        question_with_spaces == with_spaces(question_lower)
        has_reference_word == any_in(reference_words, question_with_spaces)
    IN  IF has_reference_word THEN TRUE
        ELSE IF _is_follow_up(question_lower) THEN TRUE
        ELSE IF _references_previous(question_lower, conversation_history) THEN TRUE
        ELSE IF _is_standalone_question(question_lower) THEN FALSE
        ELSE FALSE

\* ContextAnalyzer.needs_context (45-89)
needs_context(current_question, conversation_history) ==
    LET question_lower == strip(lower(current_question))
        question_with_spaces == with_spaces(question_lower)
        has_reference_word == any_in(reference_words, question_with_spaces)
    IN  IF conversation_history = <<>> THEN FALSE
        ELSE IF has_reference_word THEN TRUE
        ELSE IF _is_follow_up(question_lower) THEN TRUE
        ELSE IF _references_previous(question_lower, conversation_history) THEN TRUE
        ELSE IF _is_standalone_question(question_lower) THEN FALSE
        ELSE FALSE

\* what get_relevant_context returns: None, or a list of turns
NoneContext == [none |-> TRUE, turns |-> <<>>]

\* variant: the whole history is returned when context is needed
get_relevant_context_whole_history(current_question, conversation_history, max_messages) ==
    IF ~needs_context(current_question, conversation_history) THEN NoneContext
    ELSE [none |-> FALSE, turns |-> conversation_history]

\* ContextAnalyzer.get_relevant_context (177-196)
get_relevant_context(current_question, conversation_history, max_messages) ==
    IF ~needs_context(current_question, conversation_history) THEN NoneContext
    ELSE IF Len(conversation_history) >= max_messages
         THEN [none |-> FALSE, turns |-> slice_from(conversation_history, 0 - max_messages)]
    ELSE [none |-> FALSE, turns |-> conversation_history]

\* ---- the questions and the histories the analyzer is asked about ----
\* the words a question is made of
Vocabulary == {
    <<"E", "x", "p", "l", "a", "i", "n">>,
    <<"i", "t">>,
    <<"t", "h", "e", "y", "?">>,
    <<"a", "l", "s", "o">>,
    <<"o", "t", "h", "e", "r">>,
    <<"p", "y", "t", "h", "o", "n">>,
    <<"w", "h", "a", "t">>,
    <<"i", "s">>
}

\* the words joined by single blanks
RECURSIVE join(_)
join(ws) ==
    IF Len(ws) = 1 THEN ws[1] ELSE ws[1] \o <<" ">> \o join(Tail(ws))

\* every question of one to MaxWords words
Questions ==
    {join(ws) : ws \in UNION {[1..n -> Vocabulary] : n \in 1..MaxWords}}

\* what the user may have said in an earlier turn
TurnContents == {
    <<"P", "y", "t", "h", "o", "n", " ", "i", "s", " ", "g", "r", "e", "a", "t">>,
    <<"h", "e", "l", "l", "o", " ", "t", "h", "e", "r", "e">>
}

\* what the assistant may have answered
AssistantReplies == {
    <<"h", "e", "l", "l", "o", " ", "t", "h", "e", "r", "e">>,
    <<"I", "t", " ", "i", "s", " ", "a", " ", "l", "a", "n", "g", "u", "a", "g", "e">>
}

\* the max_messages arguments tried; 2 is the default and what ws.py passes
MaxMessagesArgs == {0, 2}

NoCall == [called |-> FALSE, op |-> "none", question |-> <<>>, max_messages |-> 0,
           needs |-> FALSE, context |-> NoneContext]

\* no turn yet, no call made
IdleAn ==
    /\ an_history = <<>>
    /\ an_last = NoCall

\* one more turn in the history handed to the analyzer (ws.py 213: the
\* caller reads it from the conversation memory).  Every turn of the loop
\* appends the user's text (226); the reply is appended only when the LLM
\* call returned (340), so a user turn follows either kind of turn and an
\* assistant turn follows a user turn
AnAddTurn ==
    /\ Len(an_history) < MaxHistory
    /\ \/ \E content \in TurnContents :
            an_history' = Append(an_history, [role |-> "user", content |-> content])
       \/ /\ an_history # <<>>
          /\ an_history[Len(an_history)].role = "user"
          /\ \E content \in AssistantReplies :
               an_history' = Append(an_history, [role |-> "assistant", content |-> content])
    /\ an_last' = NoCall
    /\ UNCHANGED outsideAn

\* a call of needs_context(question, history).  The analyzer keeps nothing
\* between calls, so each call is looked at from the history as it stands.
NeedsContext ==
    /\ an_last = NoCall
    /\ \E q \in Questions :
         an_last' = [called |-> TRUE, op |-> "needs_context", question |-> q,
                     max_messages |-> 0,
                     needs |-> needs_context(q, an_history),
                     context |-> NoneContext]
    /\ UNCHANGED <<an_history, outsideAn>>

\* a call of get_relevant_context(question, history, max_messages)
GetRelevantContext ==
    /\ an_last = NoCall
    /\ \E q \in Questions, m \in MaxMessagesArgs :
         an_last' = [called |-> TRUE, op |-> "get_relevant_context", question |-> q,
                     max_messages |-> m,
                     needs |-> needs_context(q, an_history),
                     context |-> get_relevant_context(q, an_history, m)]
    /\ UNCHANGED <<an_history, outsideAn>>

AnNext == AnAddTurn \/ NeedsContext \/ GetRelevantContext

(***************************************************************************)
(* voice_pipeline: one control loop per connection                         *)
(***************************************************************************)
Conns == {"c1", "c2"}

\* what a send or receive on a closed transport raises
TransportErrors == {"WebSocketDisconnect", "RuntimeError"}

\* MEMORY_CONFIG, the configuration voice_pipeline builds its memory with
ShippedMemConfig == [max_tokens |-> 2000, max_messages |-> 10, summarize_threshold |-> 15]

\* what the user said, as transcribed: 9 characters, a follow-up question
UserSaid == <<"w", "h", "a", "t", " ", "e", "l", "s", "e">>

\* what the LLM replied: 130 characters
LlmReplied == <<
    "S", "u", "r", "e", ",", " ", "h", "e", "r", "e", " ", "i", "s", " ", "a", " ",
    "s", "h", "o", "r", "t", " ", "a", "n", "s", "w", "e", "r", " ", "t", "o", " ",
    "y", "o", "u", "r", " ", "q", "u", "e", "s", "t", "i", "o", "n", ".", " ", "S",
    "u", "r", "e", ",", " ", "h", "e", "r", "e", " ", "i", "s", " ", "a", " ", "s",
    "h", "o", "r", "t", " ", "a", "n", "s", "w", "e", "r", " ", "t", "o", " ", "y",
    "o", "u", "r", " ", "q", "u", "e", "s", "t", "i", "o", "n", ".", " ", "S", "u",
    "r", "e", ",", " ", "h", "e", "r", "e", " ", "i", "s", " ", "a", " ", "s", "h",
    "o", "r", "t", " ", "a", "n", "s", "w", "e", "r", " ", "t", "o", " ", "y", "o",
    "u", "r" >>

UserText == [role |-> "user", len |-> Len(UserSaid), important |-> FALSE]

ReplyText == [role |-> "assistant", len |-> Len(LlmReplied), important |-> FALSE]

\* full_history = memory.get_context(max_tokens=2000) (ws.py 213): the turns
\* of role and content; the content of a turn is what its role said
full_history(memory) ==
    LET ctx == get_context(memory.messages, ShippedMemConfig, 2000)
    IN [i \in 1..Len(ctx) |->
          [role |-> ctx[i].role,
           content |-> IF ctx[i].role = "user" THEN UserSaid ELSE LlmReplied]]

\* the context selection of ws.py 210-222
select_context(text, memory) ==
    LET history == full_history(memory)
    IN IF needs_context(text, history)
       THEN get_relevant_context(text, history, 2)
       ELSE NoneContext

\* SimpleVAD.min_silence_ms
MinSilenceMs == 1500

\* milliseconds between two readings of time.time() by SimpleVAD.check
FrameGaps == {500, 1500}

NoTime == 0 - 1

\* SimpleVAD.__init__ (vad.py 155-159); clock is the last time.time() reading
VadStart == [is_speaking |-> FALSE, silence_start |-> NoTime, clock |-> 0]

\* SimpleVAD.reset (161-163)
SimpleVAD_reset(vad) == [vad EXCEPT !.silence_start = NoTime, !.is_speaking = FALSE]

\* what SimpleVAD.check makes of a chunk: its mean energy is above the
\* silence threshold (loud) or not (quiet), or np.frombuffer gives no sample
\* or raises ValueError for it (a size that is not a multiple of 2)
ChunkKinds == {"loud", "quiet", "unreadable"}

\* SimpleVAD.check (165-200) of a chunk read at time now: what it returns
\* and the detector it leaves
SimpleVAD_check(vad, chunk, now) ==
    IF chunk = "unreadable"
    THEN \* 175-176 and 198-200: False, the detector as it was
         [result |-> FALSE, vad |-> [vad EXCEPT !.clock = now]]
    ELSE IF chunk = "loud"
    THEN [result |-> FALSE,
          vad |-> [is_speaking |-> TRUE, silence_start |-> NoTime, clock |-> now]]
    ELSE IF ~vad.is_speaking
    THEN [result |-> FALSE, vad |-> [vad EXCEPT !.clock = now]]
    ELSE IF vad.silence_start = NoTime
    THEN [result |-> FALSE, vad |-> [vad EXCEPT !.silence_start = now, !.clock = now]]
    ELSE IF now - vad.silence_start >= MinSilenceMs
    THEN [result |-> TRUE, vad |-> [vad EXCEPT !.is_speaking = FALSE, !.clock = now]]
    ELSE [result |-> FALSE, vad |-> [vad EXCEPT !.clock = now]]

ConnStart ==
    [pc |-> "init", alive |-> TRUE, session |-> 0, exit |-> "none",
     memory |-> [messages |-> <<>>, total_tokens |-> 0],
     vad_enabled |-> FALSE, vad |-> VadStart, context |-> NoneContext,
     audio_chunks |-> <<>>, combined_audio |-> <<>>, boundary |-> <<>>,
     segments |-> 0, segment_at |-> 0,
     last_event |-> "none", last_turn |-> "none",
     user_appended |-> 0, assistant_appended |-> 0, llm_failed |-> 0]

ConnInit ==
    /\ sessions = <<>>
    /\ session_objs = <<>>
    /\ wall_clock = 0
    /\ conn = [c \in Conns |-> ConnStart]

\* number of audio segments received so far, over all connections
SegmentsReceived ==
    LET RECURSIVE Sum(_)
        Sum(S) == IF S = {} THEN 0
                  ELSE LET c == CHOOSE x \in S : TRUE IN conn[c].segments + Sum(S \ {c})
    IN Sum(Conns)

\* memory.add_message(role, text) on the connection's memory, as its n-th call
MemoryAdd(memory, n, turn) ==
    LET r == add_message(memory.messages, memory.total_tokens, ShippedMemConfig,
                         n, turn.role, turn, n, n)
    IN [messages |-> r.messages, total_tokens |-> r.total_tokens]

\* the loop's handlers for an exception that reaches the inner try of the
\* while loop (ws.py 369-380): a WebSocketDisconnect removes the session, any
\* other exception reports the error and breaks
LoopExitFrom(c, exc, locals) ==
    LET r == IF exc = "WebSocketDisconnect"
             THEN remove_session(sessions, session_objs, conn[c].session)
             ELSE [sessions |-> sessions, session_objs |-> session_objs]
    IN /\ sessions' = r.sessions
       /\ session_objs' = r.session_objs
       /\ conn' = [conn EXCEPT ![c] = [locals EXCEPT !.pc = "closed",
                                                     !.exit = IF exc = "WebSocketDisconnect"
                                                              THEN "disconnect"
                                                              ELSE "pipeline_error"]]

\* the same, with the connection's locals as the last step found them
LoopExit(c, exc) == LoopExitFrom(c, exc, conn[c])

\* the client goes away (environment)
ClientDisconnect(c) ==
    /\ conn[c].alive
    /\ conn[c].pc # "closed"
    /\ conn' = [conn EXCEPT ![c].alive = FALSE]
    /\ UNCHANGED <<sessions, session_objs, wall_clock, outsideConn>>

\* ws.py 37-41: websocket.accept() and, when it returns, create_session()
Accept(c) ==
    /\ conn[c].pc = "init"
    /\ IF conn[c].alive
       THEN LET r == create_session(sessions, session_objs, wall_clock)
            IN /\ sessions' = r.sessions
               /\ session_objs' = r.session_objs
               /\ conn' = [conn EXCEPT ![c].pc = "greeting", ![c].session = r.session]
       ELSE /\ conn' = [conn EXCEPT ![c].pc = "closed", ![c].exit = "uncaught"]
            /\ UNCHANGED <<sessions, session_objs>>
    /\ UNCHANGED <<wall_clock, outsideConn>>

\* ws.py 45-126: the "Connected" event and the set-up of the loop; a failing
\* send is outside every try block and ends voice_pipeline
Greet(c) ==
    /\ conn[c].pc = "greeting"
    /\ IF conn[c].alive
       THEN conn' = [conn EXCEPT ![c].pc = "awaiting", ![c].last_event = "Connected"]
       ELSE conn' = [conn EXCEPT ![c].pc = "closed", ![c].exit = "uncaught"]
    /\ UNCHANGED <<sessions, session_objs, wall_clock, outsideConn>>

\* ws.py 132-160: receive_bytes and the accumulation of the chunk, up to
\* the next await of the coroutine; at most `limit` audio segments are sent
\* to a loop without the voice-activity gate
ReceiveFrame(c, limit) ==
    /\ IF ~conn[c].alive
       THEN LoopExit(c, "WebSocketDisconnect")
       ELSE \E frame \in {"audio", "empty", "text"} :
              CASE frame = "empty" ->
                     /\ conn' = conn
                     /\ UNCHANGED <<sessions, session_objs>>
                [] frame = "text" ->
                     \* receive_bytes raises KeyError on a text frame; the
                     \* handler at 374 is entered and suspends in its send
                     /\ conn' = [conn EXCEPT ![c].pc = "error_send"]
                     /\ UNCHANGED <<sessions, session_objs>>
                [] frame = "audio" ->
                     /\ IF conn[c].vad_enabled
                        THEN conn[c].segments < MaxFrames
                        ELSE SegmentsReceived < limit
                     /\ LET chunks == Append(conn[c].audio_chunks, conn[c].segments + 1)
                        IN IF ~conn[c].vad_enabled
                           THEN \* 157-158: every chunk is processed as it comes
                                conn' = [conn EXCEPT ![c].pc = "stt",
                                                     ![c].segments = @ + 1,
                                                     ![c].segment_at = wall_clock,
                                                     ![c].last_turn = "running",
                                                     ![c].audio_chunks = chunks,
                                                     ![c].combined_audio = chunks]
                           ELSE \E chunk \in ChunkKinds, elapsed \in FrameGaps :
                                  LET v == SimpleVAD_check(conn[c].vad, chunk,
                                                           conn[c].vad.clock + elapsed)
                                  IN IF v.result
                                     THEN \* 144-149: the chunks are joined and cleared;
                                          \* then 157-160 finds the cleared list empty
                                          \* and continues
                                          conn' = [conn EXCEPT ![c].segments = @ + 1,
                                                               ![c].audio_chunks = <<>>,
                                                               ![c].combined_audio = chunks,
                                                               ![c].boundary = chunks,
                                                               ![c].vad = SimpleVAD_reset(v.vad)]
                                     ELSE \* 150-152: continue accumulating
                                          conn' = [conn EXCEPT ![c].segments = @ + 1,
                                                               ![c].audio_chunks = chunks,
                                                               ![c].boundary = <<>>,
                                                               ![c].vad = v.vad]
                     /\ UNCHANGED <<sessions, session_objs>>
    /\ UNCHANGED <<wall_clock, outsideConn>>

Receive(c) ==
    /\ conn[c].pc = "awaiting"
    /\ ReceiveFrame(c, MaxSegments)

\* ws.py 374-380: the error event of the handler for an exception that is
\* not a WebSocketDisconnect, raised while the client was there; a failing
\* send is swallowed (378-379), then break
PipelineErrorSend(c) ==
    /\ conn[c].pc = "error_send"
    /\ conn' = [conn EXCEPT ![c].pc = "closed",
                            ![c].exit = "pipeline_error",
                            ![c].last_event = IF conn[c].alive THEN "error" ELSE @]
    /\ UNCHANGED <<sessions, session_objs, wall_clock, outsideConn>>

\* ws.py 177-179: the status event that opens the speech-to-text block;
\* the coroutine is suspended in the send
SttStatus(c) ==
    /\ conn[c].pc = "stt"
    /\ IF ~conn[c].alive
       THEN \* the status send raises, the except block's error send raises again
            \E exc \in TransportErrors : LoopExit(c, exc)
       ELSE /\ conn' = [conn EXCEPT ![c].pc = "stt_call", ![c].last_event = "status"]
            /\ UNCHANGED <<sessions, session_objs>>
    /\ UNCHANGED <<wall_clock, outsideConn>>

\* ws.py 181-203: the speech-to-text call, the clearing of the chunks and
\* the event that reports the outcome; when that send raises, the except
\* block's error send raises again and the exception leaves the loop
Stt(c) ==
    /\ conn[c].pc = "stt_call"
    /\ \E outcome \in {"text", "silence", "fail"} :
         LET locals ==
               CASE outcome = "fail" ->
                      [conn[c] EXCEPT !.last_turn = "stt_failed"]
                 [] outcome = "silence" ->
                      [conn[c] EXCEPT !.audio_chunks = <<>>, !.last_turn = "no_speech"]
                 [] outcome = "text" ->
                      [conn[c] EXCEPT !.audio_chunks = <<>>]
         IN IF ~conn[c].alive
            THEN \E exc \in TransportErrors : LoopExitFrom(c, exc, locals)
            ELSE /\ conn' = [conn EXCEPT ![c] =
                               [locals EXCEPT !.pc = IF outcome = "text" THEN "llm"
                                                     ELSE "awaiting",
                                              !.last_event = IF outcome = "fail" THEN "error"
                                                             ELSE "status"]]
                 /\ UNCHANGED <<sessions, session_objs>>
    /\ UNCHANGED <<wall_clock, outsideConn>>

\* ws.py 206-241: context selection, the user turn and the emotion event
\* (a failing emotion send is swallowed)
LlmPrepare(c) ==
    /\ conn[c].pc = "llm"
    /\ conn' = [conn EXCEPT ![c].pc = "llm_call",
                            ![c].context = select_context(UserSaid, conn[c].memory),
                            ![c].memory = MemoryAdd(@, conn[c].user_appended + conn[c].assistant_appended + 1,
                                                       UserText),
                            ![c].user_appended = @ + 1,
                            ![c].last_event = IF conn[c].alive THEN "status" ELSE @]
    /\ UNCHANGED <<sessions, session_objs, wall_clock, outsideConn>>

\* variant: the reply is not stored in memory
LlmCall_reply_not_stored(c) ==
    /\ conn[c].pc = "llm_call"
    /\ session_objs' = [session_objs EXCEPT ![conn[c].session] =
                           increment_conversation(@, wall_clock)]
    /\ conn' = [conn EXCEPT ![c].pc = "tts"]
    /\ UNCHANGED <<sessions, wall_clock, outsideConn>>

\* ws.py 245-345: the LLM call, the session counter and the assistant turn
LlmCall(c) ==
    /\ conn[c].pc = "llm_call"
    /\ \E outcome \in {"reply", "fail"} :
         IF outcome = "reply"
         THEN /\ session_objs' = [session_objs EXCEPT ![conn[c].session] =
                                     increment_conversation(@, wall_clock)]
              /\ conn' = [conn EXCEPT ![c].pc = "tts",
                                      ![c].memory = MemoryAdd(@, conn[c].user_appended + conn[c].assistant_appended + 1,
                                                            ReplyText),
                                      ![c].assistant_appended = @ + 1]
              /\ UNCHANGED sessions
         ELSE IF conn[c].alive
              THEN /\ conn' = [conn EXCEPT ![c].pc = "awaiting",
                                           ![c].last_event = "error",
                                           ![c].last_turn = "llm_failed",
                                           ![c].llm_failed = @ + 1]
                   /\ UNCHANGED <<sessions, session_objs>>
              ELSE \E exc \in TransportErrors :
                      LET r == IF exc = "WebSocketDisconnect"
                               THEN remove_session(sessions, session_objs, conn[c].session)
                               ELSE [sessions |-> sessions, session_objs |-> session_objs]
                      IN /\ sessions' = r.sessions
                         /\ session_objs' = r.session_objs
                         /\ conn' = [conn EXCEPT ![c].pc = "closed",
                                                 ![c].last_turn = "llm_failed",
                                                 ![c].llm_failed = @ + 1,
                                                 ![c].exit = IF exc = "WebSocketDisconnect"
                                                             THEN "disconnect"
                                                             ELSE "pipeline_error"]
    /\ UNCHANGED <<wall_clock, outsideConn>>

\* ws.py 348: the response event sent before the audio, outside the
\* text-to-speech try block; the coroutine is suspended in the send
TtsStatus(c) ==
    /\ conn[c].pc = "tts"
    /\ IF ~conn[c].alive
       THEN \E exc \in TransportErrors : LoopExit(c, exc)
       ELSE /\ conn' = [conn EXCEPT ![c].pc = "tts_call", ![c].last_event = "status"]
            /\ UNCHANGED <<sessions, session_objs>>
    /\ UNCHANGED <<wall_clock, outsideConn>>

\* variant: a text-to-speech failure leaves the loop
Tts_break_on_failure(c) ==
    /\ conn[c].pc = "tts_call"
    /\ conn' = [conn EXCEPT ![c].pc = "closed",
                            ![c].exit = "pipeline_error",
                            ![c].last_event = IF conn[c].alive THEN "error" ELSE @,
                            ![c].last_turn = "tts_failed"]
    /\ UNCHANGED <<sessions, session_objs, wall_clock, outsideConn>>

\* ws.py 351-367: the text-to-speech call and the audio or the error event;
\* when that send raises (the audio send raises, then the except block's
\* error send), the exception leaves the loop
Tts(c) ==
    /\ conn[c].pc = "tts_call"
    /\ \E outcome \in {"audio", "fail"} :
         LET locals == IF outcome = "fail"
                       THEN [conn[c] EXCEPT !.last_turn = "tts_failed"]
                       ELSE conn[c]
         IN IF ~conn[c].alive
            THEN \E exc \in TransportErrors : LoopExitFrom(c, exc, locals)
            ELSE /\ conn' = [conn EXCEPT ![c] =
                               [locals EXCEPT !.pc = "awaiting",
                                              !.last_event = IF outcome = "audio" THEN "audio"
                                                             ELSE "error",
                                              !.last_turn = IF outcome = "audio" THEN "ok"
                                                            ELSE "tts_failed"]]
                 /\ UNCHANGED <<sessions, session_objs>>
    /\ UNCHANGED <<wall_clock, outsideConn>>

\* minutes by which datetime.now() advances between two steps of the loops:
\* more than the session timeout
WallSteps == {SessionTimeoutMinutes + 1}

WallTick ==
    /\ wall_clock < MaxWallTicks
    /\ \E d \in WallSteps : wall_clock' = wall_clock + d
    /\ UNCHANGED <<sessions, session_objs, conn, outsideConn>>

ConnNext ==
    \/ \E c \in Conns : ClientDisconnect(c)
    \/ \E c \in Conns : Accept(c)
    \/ \E c \in Conns : Greet(c)
    \/ \E c \in Conns : Receive(c)
    \/ \E c \in Conns : PipelineErrorSend(c)
    \/ \E c \in Conns : SttStatus(c)
    \/ \E c \in Conns : Stt(c)
    \/ \E c \in Conns : LlmPrepare(c)
    \/ \E c \in Conns : LlmCall(c)
    \/ \E c \in Conns : TtsStatus(c)
    \/ \E c \in Conns : Tts(c)
    \/ WallTick

(***************************************************************************)
(* ReconnectionManager                                                     *)
(***************************************************************************)
Callers == {"t1", "t2"}

RcConfigs == { [max_attempts |-> m, base_delay |-> d] : m \in {0, 2, 3}, d \in {1, 3} }

RECURSIVE Pow2(_)
Pow2(n) == IF n = 0 THEN 1 ELSE 2 * Pow2(n - 1)

\* variant: the delay grows by base_delay with every attempt
BackoffDelay_linear(base_delay, attempt) == base_delay * attempt

\* delay = self.base_delay * (2 ** (attempt - 1))
BackoffDelay(base_delay, attempt) == base_delay * Pow2(attempt - 1)

\* variant: range(1, self.max_attempts)
AttemptRange_short(max_attempts) == 1..(max_attempts - 1)

\* range(1, self.max_attempts + 1)
AttemptRange(max_attempts) == 1..max_attempts

RcIdle == [pc |-> "idle", attempt |-> 0, outcomes |-> <<>>, waits |-> <<>>,
           result |-> "none", started |-> FALSE]

RcInit ==
    /\ rc_cfg \in RcConfigs
    /\ auto_reconnect = TRUE
    /\ reconnect_attempts = 0
    /\ is_reconnecting = FALSE
    /\ rc = [p \in Callers |-> RcIdle]
    /\ rc_started = 0

\* variant: no test of is_reconnecting
RcCall_unguarded(p) ==
    /\ rc[p].pc \in {"idle", "done", "cancelled"}
    /\ rc_started < MaxRcCalls
    /\ rc_started' = rc_started + 1
    /\ IF ~auto_reconnect
       THEN /\ rc' = [rc EXCEPT ![p] = [RcIdle EXCEPT !.pc = "done", !.result = "false"]]
            /\ UNCHANGED is_reconnecting
       ELSE IF AttemptRange(rc_cfg.max_attempts) = {}
       THEN /\ rc' = [rc EXCEPT ![p] = [RcIdle EXCEPT !.pc = "done", !.result = "false",
                                                    !.started = TRUE]]
            /\ is_reconnecting' = FALSE
       ELSE /\ rc' = [rc EXCEPT ![p] = [RcIdle EXCEPT !.pc = "sleeping", !.attempt = 1,
                                                    !.started = TRUE]]
            /\ is_reconnecting' = TRUE
    /\ UNCHANGED <<rc_cfg, auto_reconnect, reconnect_attempts, outsideRc>>

\* attempt_reconnect up to its first await (reconnection_manager.py 41-58)
RcCall(p) ==
    /\ rc[p].pc \in {"idle", "done", "cancelled"}
    /\ rc_started < MaxRcCalls
    /\ rc_started' = rc_started + 1
    /\ IF ~auto_reconnect
       THEN /\ rc' = [rc EXCEPT ![p] = [RcIdle EXCEPT !.pc = "done", !.result = "false"]]
            /\ UNCHANGED is_reconnecting
       ELSE IF is_reconnecting
       THEN /\ rc' = [rc EXCEPT ![p] = [RcIdle EXCEPT !.pc = "done", !.result = "false"]]
            /\ UNCHANGED is_reconnecting
       ELSE IF AttemptRange(rc_cfg.max_attempts) = {}
       THEN /\ rc' = [rc EXCEPT ![p] = [RcIdle EXCEPT !.pc = "done", !.result = "false",
                                                    !.started = TRUE]]
            /\ is_reconnecting' = FALSE
       ELSE /\ rc' = [rc EXCEPT ![p] = [RcIdle EXCEPT !.pc = "sleeping", !.attempt = 1,
                                                    !.started = TRUE]]
            /\ is_reconnecting' = TRUE
    /\ UNCHANGED <<rc_cfg, auto_reconnect, reconnect_attempts, outsideRc>>

\* asyncio.sleep(delay) is over: reconnect_func() is invoked (58-61)
RcInvoke(p) ==
    /\ rc[p].pc = "sleeping"
    /\ rc' = [rc EXCEPT ![p].pc = "invoking",
                        ![p].waits = Append(@, BackoffDelay(rc_cfg.base_delay, rc[p].attempt))]
    /\ UNCHANGED <<rc_cfg, auto_reconnect, reconnect_attempts, is_reconnecting, rc_started,
                   outsideRc>>

\* reconnect_func() returns or raises (61-74)
RcOutcome(p) ==
    /\ rc[p].pc = "invoking"
    /\ \E outcome \in {"ok", "fail"} :
         IF outcome = "ok"
         THEN /\ reconnect_attempts' = 0
              /\ is_reconnecting' = FALSE
              /\ rc' = [rc EXCEPT ![p].pc = "done", ![p].result = "true",
                                  ![p].outcomes = Append(@, "ok")]
         ELSE IF rc[p].attempt = rc_cfg.max_attempts
         THEN /\ is_reconnecting' = FALSE
              /\ rc' = [rc EXCEPT ![p].pc = "done", ![p].result = "false",
                                  ![p].outcomes = Append(@, "fail")]
              /\ UNCHANGED reconnect_attempts
         ELSE IF rc[p].attempt + 1 \in AttemptRange(rc_cfg.max_attempts)
         THEN /\ rc' = [rc EXCEPT ![p].pc = "sleeping", ![p].attempt = @ + 1,
                                  ![p].outcomes = Append(@, "fail")]
              /\ UNCHANGED <<reconnect_attempts, is_reconnecting>>
         ELSE \* the range is exhausted (73-74)
              /\ is_reconnecting' = FALSE
              /\ rc' = [rc EXCEPT ![p].pc = "done", ![p].result = "false",
                                  ![p].outcomes = Append(@, "fail")]
              /\ UNCHANGED reconnect_attempts
    /\ UNCHANGED <<rc_cfg, auto_reconnect, rc_started, outsideRc>>

\* the awaiting task is cancelled: CancelledError is not an Exception, so no
\* handler of attempt_reconnect runs
RcCancel(p) ==
    /\ rc[p].pc \in {"sleeping", "invoking"}
    /\ rc' = [rc EXCEPT ![p].pc = "cancelled"]
    /\ UNCHANGED <<rc_cfg, auto_reconnect, reconnect_attempts, is_reconnecting, rc_started,
                   outsideRc>>

\* ReconnectionManager.reset (80-84)
RcReset ==
    /\ reconnect_attempts' = 0
    /\ is_reconnecting' = FALSE
    /\ UNCHANGED <<rc_cfg, auto_reconnect, rc, rc_started, outsideRc>>

\* the preferences endpoints switch auto_reconnect
SetAutoReconnect ==
    /\ auto_reconnect' = ~auto_reconnect
    /\ UNCHANGED <<rc_cfg, reconnect_attempts, is_reconnecting, rc, rc_started,
                   outsideRc>>

RcNext ==
    \/ \E p \in Callers : RcCall(p)
    \/ \E p \in Callers : RcInvoke(p)
    \/ \E p \in Callers : RcOutcome(p)
    \/ \E p \in Callers : RcCancel(p)
    \/ RcReset
    \/ SetAutoReconnect

(***************************************************************************)
(* SessionManager used directly: create, look up, remove, idle sweep       *)
(***************************************************************************)
\* session ids a caller supplies; a generated id (uuid4) is modelled by the
\* index of the new object and never equals a supplied one
SuppliedIds == {101}

\* None as session_id argument or as return value
None == 0

\* minutes by which datetime.now() advances between two calls
RegSteps == {1, SessionTimeoutMinutes}

RegIdle == [op |-> "none", session_id |-> None, result |-> None, inactive |-> {}]

IdleReg ==
    /\ reg_last = RegIdle
    /\ reg_ticks = 0

\* SessionManager.create_session(session_id): UserSession(session_id) uses
\* the given id, or a generated one when it is None; the registry entry of
\* that id is set to the new object
create_session_with(reg, objs, session_id, now) ==
    IF session_id = None
    THEN create_session(reg, objs, now)
    ELSE LET oid == Len(objs) + 1
         IN [sessions |-> [k \in DOMAIN reg \cup {session_id} |->
                              IF k = session_id THEN oid ELSE reg[k]],
             session_objs |-> Append(objs, UserSession(session_id, now)),
             session |-> oid]

\* UserSession.update_activity
update_activity(obj, now) == [obj EXCEPT !.last_activity = now]

\* SessionManager.get_session(session_id)
get_session(reg, objs, session_id, now) ==
    IF session_id \in DOMAIN reg
    THEN [sessions |-> reg,
          session_objs |-> [objs EXCEPT ![reg[session_id]] = update_activity(@, now)],
          session |-> reg[session_id]]
    ELSE [sessions |-> reg, session_objs |-> objs, session |-> None]

\* SessionManager.get_or_create_session(session_id)
get_or_create_session(reg, objs, session_id, now) ==
    IF session_id # None /\ session_id \in DOMAIN reg
    THEN [sessions |-> reg,
          session_objs |-> [objs EXCEPT ![reg[session_id]] = update_activity(@, now)],
          session |-> reg[session_id]]
    ELSE create_session_with(reg, objs, session_id, now)

\* for sid in inactive: self.remove_session(sid)
RECURSIVE RemoveAll(_, _, _)
RemoveAll(reg, objs, sids) ==
    IF sids = {} THEN [sessions |-> reg, session_objs |-> objs]
    ELSE LET sid == CHOOSE x \in sids : TRUE
             r == remove_session(reg, objs, sid)
         IN RemoveAll(r.sessions, r.session_objs, sids \ {sid})

\* variant: a session whose age equals the timeout counts as inactive
cleanup_inactive_sessions_inclusive(reg, objs, now) ==
    LET cutoff_time == now - SessionTimeoutMinutes
        inactive == {sid \in DOMAIN reg : objs[reg[sid]].last_activity <= cutoff_time}
        r == RemoveAll(reg, objs, inactive)
    IN [sessions |-> r.sessions, session_objs |-> r.session_objs, inactive |-> inactive]

\* SessionManager.cleanup_inactive_sessions
cleanup_inactive_sessions(reg, objs, now) ==
    LET cutoff_time == now - SessionTimeoutMinutes
        inactive == {sid \in DOMAIN reg : objs[reg[sid]].last_activity < cutoff_time}
        r == RemoveAll(reg, objs, inactive)
    IN [sessions |-> r.sessions, session_objs |-> r.session_objs, inactive |-> inactive]

\* the ids a caller can ask for: supplied ones and generated ones it was given
KnownIds == SuppliedIds \cup {session_objs[k].session_id : k \in DOMAIN session_objs}

RegCreate ==
    /\ Len(session_objs) < MaxObjects
    /\ \E sid \in SuppliedIds \cup {None} :
         LET r == create_session_with(sessions, session_objs, sid, wall_clock)
         IN /\ sessions' = r.sessions
            /\ session_objs' = r.session_objs
            /\ reg_last' = [op |-> "create_session", session_id |-> sid,
                            result |-> r.session, inactive |-> {}]
    /\ UNCHANGED <<wall_clock, reg_ticks, outsideReg>>

RegGet ==
    /\ \E sid \in KnownIds :
         LET r == get_session(sessions, session_objs, sid, wall_clock)
         IN /\ sessions' = r.sessions
            /\ session_objs' = r.session_objs
            /\ reg_last' = [op |-> "get_session", session_id |-> sid,
                            result |-> r.session, inactive |-> {}]
    /\ UNCHANGED <<wall_clock, reg_ticks, outsideReg>>

RegGetOrCreate ==
    /\ \E sid \in KnownIds \cup {None} :
         LET r == get_or_create_session(sessions, session_objs, sid, wall_clock)
         IN /\ Len(r.session_objs) <= MaxObjects
            /\ sessions' = r.sessions
            /\ session_objs' = r.session_objs
            /\ reg_last' = [op |-> "get_or_create_session", session_id |-> sid,
                            result |-> r.session, inactive |-> {}]
    /\ UNCHANGED <<wall_clock, reg_ticks, outsideReg>>

RegRemove ==
    /\ \E sid \in KnownIds :
         LET r == remove_session(sessions, session_objs, sid)
         IN /\ sessions' = r.sessions
            /\ session_objs' = r.session_objs
            /\ reg_last' = [op |-> "remove_session", session_id |-> sid,
                            result |-> None, inactive |-> {}]
    /\ UNCHANGED <<wall_clock, reg_ticks, outsideReg>>

RegSweep ==
    /\ LET r == cleanup_inactive_sessions(sessions, session_objs, wall_clock)
       IN /\ sessions' = r.sessions
          /\ session_objs' = r.session_objs
          /\ reg_last' = [op |-> "cleanup_inactive_sessions", session_id |-> None,
                          result |-> None, inactive |-> r.inactive]
    /\ UNCHANGED <<wall_clock, reg_ticks, outsideReg>>

RegTick ==
    /\ reg_ticks < MaxRegTicks
    /\ \E d \in RegSteps : wall_clock' = wall_clock + d
    /\ reg_ticks' = reg_ticks + 1
    /\ UNCHANGED <<sessions, session_objs, reg_last, outsideReg>>

RegNext ==
    \/ RegCreate
    \/ RegGet
    \/ RegGetOrCreate
    \/ RegRemove
    \/ RegSweep
    \/ RegTick

(***************************************************************************)
(* Specifications                                                          *)
(***************************************************************************)
IdleMem == mem_cfg = ShippedMemConfig /\ MemStart

IdleRL == rl_cfg = DefaultRLConfig /\ RLStart

\* the shipped preferences: max_retries 5, reconnect_delay 3
DefaultRcConfig == [max_attempts |-> 5, base_delay |-> 3]

IdleRc ==
    /\ rc_cfg = DefaultRcConfig
    /\ auto_reconnect = TRUE
    /\ reconnect_attempts = 0
    /\ is_reconnecting = FALSE
    /\ rc = [p \in Callers |-> RcIdle]
    /\ rc_started = 0

\* a ConversationMemory of any configuration; every other component as constructed
MemSpecInit == MemInit /\ IdleRL /\ ConnInit /\ IdleRc /\ IdleReg /\ IdleAn

MemSpec == MemSpecInit /\ [][MemNext]_vars

\* a ConversationMemory constructed with any limits, usable or not
AnyCfgSpecInit == AnyCfgInit /\ IdleRL /\ ConnInit /\ IdleRc /\ IdleReg /\ IdleAn

AnyCfgSpec == AnyCfgSpecInit /\ [][MemNext]_vars

\* configurations whose summarize_threshold is above max_messages: the
\* shipped one (MEMORY_CONFIG) and two that five turns can exceed
TrimFirstConfigs ==
    { [max_tokens |-> 2000, max_messages |-> 10, summarize_threshold |-> 15],
      [max_tokens |-> 2000, max_messages |-> 2, summarize_threshold |-> 3],
      [max_tokens |-> 12, max_messages |-> 2, summarize_threshold |-> 3] }

TrimFirstInit ==
    /\ mem_cfg \in TrimFirstConfigs
    /\ MemStart

TrimFirstSpecInit == TrimFirstInit /\ IdleRL /\ ConnInit /\ IdleRc /\ IdleReg /\ IdleAn

TrimFirstSpec == TrimFirstSpecInit /\ [][MemNext]_vars

\* a ConversationMemory whose turns are summarized, over a longer conversation
SummSpecInit == SummInit /\ IdleRL /\ ConnInit /\ IdleRc /\ IdleReg /\ IdleAn

SummSpec == SummSpecInit /\ [][SummNext]_vars

\* a ConversationMemory written to and read from
CtxSpecInit == CtxInit /\ IdleRL /\ ConnInit /\ IdleRc /\ IdleReg /\ IdleAn

CtxSpec == CtxSpecInit /\ [][CtxNext]_vars

\* a RateLimiter of any configuration; every other component as constructed
RLSpecInit == RLInit /\ IdleMem /\ ConnInit /\ IdleRc /\ IdleReg /\ IdleAn

RLSpec == RLSpecInit /\ [][RLNext]_vars

\* the voice endpoint as shipped
\* a RateLimiter with ceilings 2, 3 and 4, asked for what remains
RemInit ==
    /\ rl_cfg = [requests_per_minute |-> 2, requests_per_hour |-> 3, requests_per_day |-> 4]
    /\ RLStart

RemSpecInit == RemInit /\ IdleMem /\ ConnInit /\ IdleRc /\ IdleReg /\ IdleAn

RemSpec == RemSpecInit /\ [][RemNext]_vars

ConnSpecInit == ConnInit /\ IdleMem /\ IdleRL /\ IdleRc /\ IdleReg /\ IdleAn

ConnSpec == ConnSpecInit /\ [][ConnNext]_vars

\* connections served while the registry they share is swept for idle
\* sessions (cleanup_inactive_sessions, which calls remove_session)
SweepNext ==
    \/ ConnNext
    \/ RegSweep

SweepSpec == ConnSpecInit /\ [][SweepNext]_vars

\* the client whose conversation is followed on its own
Speaker == "c1"

\* receive_bytes in a conversation of several turns
DialogueReceive ==
    /\ conn[Speaker].pc = "awaiting"
    /\ ReceiveFrame(Speaker, MaxTurns)

\* one client talking to the voice endpoint, turn after turn
DialogueNext ==
    \/ ClientDisconnect(Speaker)
    \/ Accept(Speaker)
    \/ Greet(Speaker)
    \/ DialogueReceive
    \/ PipelineErrorSend(Speaker)
    \/ SttStatus(Speaker)
    \/ Stt(Speaker)
    \/ LlmPrepare(Speaker)
    \/ LlmCall(Speaker)
    \/ TtsStatus(Speaker)
    \/ Tts(Speaker)

DialogueSpec == ConnSpecInit /\ [][DialogueNext]_vars

\* the voice endpoint built with vad_enabled False (as shipped) or True
VadInit ==
    /\ sessions = <<>>
    /\ session_objs = <<>>
    /\ wall_clock = 0
    /\ \E v \in BOOLEAN : conn = [c \in Conns |-> [ConnStart EXCEPT !.vad_enabled = v]]

VadSpecInit == VadInit /\ IdleMem /\ IdleRL /\ IdleRc /\ IdleReg /\ IdleAn

VadSpec == VadSpecInit /\ [][ConnNext]_vars

\* the steps of one voice_pipeline call that the event loop runs by itself
\* (everything but the arrival of a frame and the client going away)
PipelineStep(c) ==
    Accept(c) \/ Greet(c) \/ PipelineErrorSend(c) \/ SttStatus(c) \/ Stt(c) \/ LlmPrepare(c) \/ LlmCall(c)
       \/ TtsStatus(c) \/ Tts(c)

\* the voice endpoint with its scheduling: the event loop runs every
\* coroutine that is ready, and time passes
ConnFairSpec ==
    /\ ConnSpecInit
    /\ [][ConnNext]_vars
    /\ \A c \in Conns : WF_vars(PipelineStep(c))
    /\ WF_vars(WallTick)

\* a ReconnectionManager of any configuration; every other component as constructed
RcSpecInit == RcInit /\ IdleMem /\ IdleRL /\ ConnInit /\ IdleReg /\ IdleAn

RcSpec == RcSpecInit /\ [][RcNext]_vars

\* a SessionManager with the shipped timeout, called directly
RegSpecInit == ConnInit /\ IdleMem /\ IdleRL /\ IdleRc /\ IdleReg /\ IdleAn

RegSpec == RegSpecInit /\ [][RegNext]_vars

\* a ContextAnalyzer asked about any question over a growing history
AnSpecInit == IdleAn /\ ConnInit /\ IdleMem /\ IdleRL /\ IdleRc /\ IdleReg

AnSpec == AnSpecInit /\ [][AnNext]_vars

(***************************************************************************)
(* Properties                                                              *)
(***************************************************************************)
CountRole(msgs, role) == Cardinality({i \in 1..Len(msgs) : msgs[i].role = role})

\* number of timestamps of `history` in the trailing window (now - w, now]
WindowCount(history, now, w) ==
    Cardinality({i \in 1..Len(history) : history[i] > now - w /\ history[i] <= now})

CallsOf(id) == SelectSeq(rl_calls, LAMBDA e : e.id = id)

\* C1: after every add_message call total_tokens equals the sum of the
\* 'tokens' fields of the turns currently in messages, whichever of the
\* summarization, compression and trim passes ran.
C1_TotalTokensIsSum ==
    LET RECURSIVE Sum(_)
        Sum(s) == IF s = <<>> THEN 0 ELSE Head(s).tokens + Sum(Tail(s))
    IN total_tokens = Sum(messages)

C1_Witness ==
    /\ {"summarize", "compress"} \subseteq last_passes
    /\ total_tokens > 0
    /\ Len(messages) >= 2

\* C2: after every add_message call, with max_messages >= 1, messages holds
\* at most max_messages turns.
C2_LengthBounded ==
    mem_cfg.max_messages >= 1 => Len(messages) <= mem_cfg.max_messages

C2_Witness ==
    /\ "trim" \in last_passes
    /\ Len(messages) = mem_cfg.max_messages
    /\ adds > mem_cfg.max_messages

\* C3: is_allowed returns (true, no reason) and appends now exactly when the
\* minute, hour and day counts of the retained timestamps are all below their
\* ceilings; otherwise it returns false, records nothing and names the first
\* window (minute, hour, day) whose ceiling is met.  The first N + 1 calls of
\* an identifier within one second, N = requests_per_minute not above the
\* hour and day ceilings, give N times true and then false for the minute.
C3_AdmissionDecision ==
    /\ \A i \in 1..Len(rl_calls) :
         LET e == rl_calls[i]
             cm == WindowCount(e.before, e.time, MinuteWindow)
             ch == WindowCount(e.before, e.time, HourWindow)
             cd == WindowCount(e.before, e.time, DayWindow)
             retained == SelectSeq(e.before, LAMBDA ts : ts > e.time - DayWindow)
             below == /\ cm < rl_cfg.requests_per_minute
                      /\ ch < rl_cfg.requests_per_hour
                      /\ cd < rl_cfg.requests_per_day
         IN /\ e.allowed = below
            /\ e.allowed => e.reason = NoReason /\ e.after = Append(retained, e.time)
            /\ ~e.allowed =>
                 /\ e.after = retained
                 /\ e.reason =
                      IF cm >= rl_cfg.requests_per_minute
                      THEN [limit |-> rl_cfg.requests_per_minute, period |-> "minute"]
                      ELSE IF ch >= rl_cfg.requests_per_hour
                      THEN [limit |-> rl_cfg.requests_per_hour, period |-> "hour"]
                      ELSE [limit |-> rl_cfg.requests_per_day, period |-> "day"]
    /\ \A id \in Identifiers :
         LET calls == CallsOf(id)
             n == rl_cfg.requests_per_minute
         IN ( /\ Len(calls) >= n + 1
              /\ calls[n + 1].time <= calls[1].time + 1
              /\ rl_cfg.requests_per_hour >= n
              /\ rl_cfg.requests_per_day >= n )
            => /\ \A k \in 1..n : calls[k].allowed
               /\ ~calls[n + 1].allowed
               /\ calls[n + 1].reason.period = "minute"

C3_Witness ==
    \E id \in Identifiers :
       LET calls == CallsOf(id)
       IN /\ \E i \in 1..Len(calls) : calls[i].allowed /\ Len(calls[i].after) = 2
          /\ \E i \in 1..Len(calls) : ~calls[i].allowed /\ calls[i].reason.period = "minute"
          /\ \E i \in 1..Len(calls) : ~calls[i].allowed /\ calls[i].reason.period = "day"

\* C4: with concurrent handlers calling is_allowed for the same identifier,
\* check and append are one step: whatever the interleaving, the requests
\* admitted into a window never exceed that window's ceiling.
C4_NoOverAdmission ==
    \A i \in 1..Len(rl_calls) :
       rl_calls[i].allowed =>
          LET e == rl_calls[i]
              Admitted(w) == {j \in 1..Len(rl_calls) :
                                /\ rl_calls[j].allowed
                                /\ rl_calls[j].id = e.id
                                /\ rl_calls[j].time > e.time - w
                                /\ rl_calls[j].time <= e.time}
          IN /\ Cardinality(Admitted(MinuteWindow)) <= rl_cfg.requests_per_minute
             /\ Cardinality(Admitted(HourWindow)) <= rl_cfg.requests_per_hour
             /\ Cardinality(Admitted(DayWindow)) <= rl_cfg.requests_per_day

C4_Witness ==
    /\ \A h \in Handlers : h_pc[h] = "admitted"
    /\ \E id \in Identifiers :
         /\ WindowCount(request_history[id], rl_now, MinuteWindow) = rl_cfg.requests_per_minute
         /\ Len(CallsOf(id)) >= 3
         /\ \E k \in 1..Len(CallsOf(id)) : ~CallsOf(id)[k].allowed

\* C5: a voice connection gets a session only after is_allowed has admitted
\* it; a connection over a ceiling gets no session.
C5_AdmissionBeforeSession ==
    \A c \in Conns :
       conn[c].session # 0 => \E i \in 1..Len(rl_calls) : rl_calls[i].allowed

\* C6: whenever voice_pipeline has ended, the connection's session has been
\* removed from the registry and marked inactive.
C6_SessionRemovedAtExit ==
    \A c \in Conns :
       (conn[c].pc = "closed" /\ conn[c].session # 0)
          => /\ conn[c].session \notin DOMAIN sessions
             /\ ~session_objs[conn[c].session].is_active

FailedTurns == {"stt_failed", "llm_failed", "tts_failed"}

\* C7: a failure of the STT, LLM or TTS collaborator during a turn (transport
\* up) sends an error event, leaves the session registered and active and
\* returns the loop to awaiting audio; the next audio segment starts a new turn.
C7_FailedTurnKeepsSession ==
    [][\A c \in Conns :
         /\ ( /\ conn[c].last_turn = "running"
              /\ conn[c].alive
              /\ conn'[c].last_turn \in FailedTurns )
            => /\ conn'[c].pc = "awaiting"
               /\ conn'[c].exit = "none"
               /\ conn'[c].last_event = "error"
               /\ conn[c].session \in DOMAIN sessions'
               /\ session_objs'[sessions'[conn[c].session]].is_active
         /\ ( /\ conn[c].pc = "awaiting"
              /\ conn[c].last_turn \in FailedTurns
              /\ conn'[c].segments = conn[c].segments + 1 )
            => /\ conn'[c].pc = "stt"
               /\ conn'[c].last_turn = "running"
               /\ conn[c].session \in DOMAIN sessions'
       ]_vars

C7_Witness ==
    \E c \in Conns :
       /\ conn[c].llm_failed = 1
       /\ conn[c].segments = 2
       /\ conn[c].pc = "llm"
       /\ conn[c].session \in DOMAIN sessions
       /\ session_objs[conn[c].session].is_active

\* C8 (as claimed): after any turn has ended, successfully or with an LLM
\* failure, as many user turns as assistant turns have been appended.
C8_TurnsAppendedTogether ==
    \A c \in Conns :
       conn[c].pc \in {"awaiting", "closed"}
          => CountRole(conn[c].memory.messages, "user")
               = CountRole(conn[c].memory.messages, "assistant")

\* C8 (amended): the user turn is appended before the LLM collaborator is
\* invoked and the assistant turn after it has replied; after any turn has
\* ended the user turns exceed the assistant turns by the number of turns
\* whose LLM step failed.
C8_UserTurnSurvivesFailure ==
    \A c \in Conns :
       LET users == CountRole(conn[c].memory.messages, "user")
           assistants == CountRole(conn[c].memory.messages, "assistant")
       IN /\ users = conn[c].user_appended
          /\ assistants = conn[c].assistant_appended
          /\ conn[c].pc = "llm_call" => users = assistants + conn[c].llm_failed + 1
          /\ conn[c].pc # "llm_call" => users = assistants + conn[c].llm_failed

C8_Witness ==
    \E c \in Conns :
       /\ conn[c].pc = "awaiting"
       /\ conn[c].last_turn = "llm_failed"
       /\ CountRole(conn[c].memory.messages, "user") = 2
       /\ CountRole(conn[c].memory.messages, "assistant") = 1

AllFail(s) == \A i \in 1..Len(s) : s[i] = "fail"

\* C9: a reconnection sequence with max_attempts = M invokes the reconnect
\* action min(k, M) times, k the first succeeding invocation: it returns
\* success right after the first success, with reconnect_attempts = 0 and
\* is_reconnecting = false, and failure with is_reconnecting = false after M
\* failures.
C9_BoundedRetry ==
    /\ [](\A p \in Callers :
            LET o == rc[p].outcomes
            IN /\ Len(o) <= rc_cfg.max_attempts
               /\ Len(o) > 0 => AllFail(SubSeq(o, 1, Len(o) - 1))
               /\ (rc[p].pc = "done" /\ rc[p].started) =>
                    \/ /\ rc[p].result = "true"
                       /\ Len(o) >= 1
                       /\ o[Len(o)] = "ok"
                    \/ /\ rc[p].result = "false"
                       /\ Len(o) = rc_cfg.max_attempts
                       /\ AllFail(o)
               /\ (rc[p].pc \in {"sleeping", "invoking"}) => AllFail(o))
    /\ [][\A p \in Callers :
            (rc[p].pc = "invoking" /\ rc'[p].pc = "done")
               => /\ ~is_reconnecting'
                  /\ rc'[p].result = "true" => reconnect_attempts' = 0
                  /\ rc'[p].result = "true" <=> rc'[p].outcomes[Len(rc'[p].outcomes)] = "ok"
         ]_vars

C9_Witness ==
    \E p, q \in Callers :
       /\ rc[p].pc = "done" /\ rc[p].result = "true" /\ rc[p].outcomes = <<"fail", "ok">>
       /\ rc[q].pc = "done" /\ rc[q].result = "false" /\ Len(rc[q].outcomes) = 3
       /\ rc_cfg.max_attempts = 3

\* C10: attempt_reconnect called while is_reconnecting is true returns
\* failure at once, never invokes its reconnect action, starts no second
\* sequence and leaves is_reconnecting and the running sequence untouched.
C10_SingleFlightGuard ==
    [][\A p \in Callers :
         (is_reconnecting /\ rc_started' = rc_started + 1 /\ rc'[p] # rc[p])
            => /\ rc'[p].pc = "done"
               /\ rc'[p].result = "false"
               /\ rc'[p].outcomes = <<>>
               /\ ~rc'[p].started
               /\ is_reconnecting'
               /\ reconnect_attempts' = reconnect_attempts
               /\ \A q \in Callers \ {p} : rc'[q] = rc[q]
      ]_vars

C10_Witness ==
    \E p, q \in Callers :
       /\ p # q
       /\ rc[p].pc = "invoking"
       /\ is_reconnecting
       /\ rc[q].pc = "done" /\ ~rc[q].started /\ rc[q].result = "false"
       /\ auto_reconnect

\* the callers whose reconnection sequence is between its start and its return
Running == {p \in Callers : rc[p].pc \in {"sleeping", "invoking"}}

\* C11: under any interleaving of attempt_reconnect and reset on one
\* ReconnectionManager at most one reconnection sequence is running, and
\* is_reconnecting is true while a sequence is running.
C11_OneSequenceAtATime ==
    /\ Cardinality(Running) <= 1
    /\ Running # {} => is_reconnecting

\* C12: when the only running sequence is abandoned (its task cancelled
\* during a wait or an attempt) is_reconnecting is false afterwards, the
\* abandoned call invokes nothing more, and a later attempt_reconnect call
\* made while no sequence runs (auto-reconnect on, max_attempts >= 1) starts
\* a new sequence.
C12_AbandonedSequenceReleasesGuard ==
    [][\A p \in Callers :
         /\ ( /\ p \in Running
              /\ Running = {p}
              /\ rc'[p].pc = "cancelled" )
            => ~is_reconnecting'
         /\ rc[p].pc = "cancelled" =>
               \/ rc'[p].outcomes = rc[p].outcomes
               \/ rc_started' = rc_started + 1
         /\ ( /\ Running = {}
              /\ auto_reconnect
              /\ rc_cfg.max_attempts >= 1
              /\ rc_started' = rc_started + 1
              /\ rc'[p] # rc[p] )
            => rc'[p].started /\ rc'[p].pc = "sleeping"
      ]_vars

\* a step of the registry other than a clock advance: reg_last' describes it
RegCallStep == wall_clock' = wall_clock /\ reg_ticks' = reg_ticks

\* C13: for registered sessions of mixed ages cleanup_inactive_sessions
\* removes and deactivates exactly the sessions whose last_activity is
\* earlier than now minus the timeout; every other session stays
\* registered, active and with all its fields unchanged.
C13_SweepRemovesExactlyIdle ==
    [][(RegCallStep /\ reg_last'.op = "cleanup_inactive_sessions") =>
         LET cutoff == wall_clock - SessionTimeoutMinutes
             Idle(sid) == session_objs[sessions[sid]].last_activity < cutoff
         IN /\ DOMAIN sessions' = {sid \in DOMAIN sessions : ~Idle(sid)}
            /\ reg_last'.inactive = {sid \in DOMAIN sessions : Idle(sid)}
            /\ Len(session_objs') = Len(session_objs)
            /\ \A sid \in DOMAIN sessions :
                 IF Idle(sid)
                 THEN session_objs'[sessions[sid]]
                         = [session_objs[sessions[sid]] EXCEPT !.is_active = FALSE]
                 ELSE /\ sessions'[sid] = sessions[sid]
                      /\ session_objs'[sessions[sid]] = session_objs[sessions[sid]]
                      /\ session_objs'[sessions[sid]].is_active
      ]_vars

C13_Witness ==
    /\ reg_last.op = "cleanup_inactive_sessions"
    /\ reg_last.inactive # {}
    /\ DOMAIN sessions # {}
    /\ \E sid \in DOMAIN sessions :
         /\ session_objs[sessions[sid]].last_activity > 0
         /\ session_objs[sessions[sid]].last_activity < wall_clock

\* C14: a session removed from the registry (by remove_session or by the
\* sweep) is inactive and stays inactive and unregistered under every later
\* registry operation; get_session for an unregistered id returns None; a
\* create under an unregistered id yields a new, active object.
C14_RemovedNeverRevived ==
    [][/\ \A sid \in DOMAIN sessions :
            sid \notin DOMAIN sessions' => ~session_objs'[sessions[sid]].is_active
       /\ \A k \in DOMAIN session_objs :
            ~session_objs[k].is_active
               => /\ session_objs'[k] = session_objs[k]
                  /\ \A sid \in DOMAIN sessions' : sessions'[sid] # k
       /\ ( /\ RegCallStep
            /\ reg_last'.op = "get_session"
            /\ reg_last'.session_id \notin DOMAIN sessions )
          => /\ reg_last'.result = None
             /\ sessions' = sessions
             /\ session_objs' = session_objs
       /\ ( /\ RegCallStep
            /\ reg_last'.op \in {"create_session", "get_or_create_session"}
            /\ reg_last'.session_id # None
            /\ reg_last'.session_id \notin DOMAIN sessions )
          => /\ reg_last'.result = Len(session_objs) + 1
             /\ Len(session_objs') = Len(session_objs) + 1
             /\ sessions'[reg_last'.session_id] = reg_last'.result
             /\ session_objs'[reg_last'.result].is_active
             /\ session_objs'[reg_last'.result].session_id = reg_last'.session_id
      ]_vars

C14_Witness ==
    \E k, j \in DOMAIN session_objs :
       /\ k # j
       /\ ~session_objs[k].is_active
       /\ session_objs[j].is_active
       /\ session_objs[j].session_id = session_objs[k].session_id
       /\ session_objs[k].session_id \in DOMAIN sessions
       /\ sessions[session_objs[k].session_id] = j
       /\ reg_last.op = "get_or_create_session"

\* C15: a registered session whose last_activity is older than the idle
\* timeout is eventually removed from the registry (by the idle sweep
\* running in the background).
C15_IdleSessionEventuallySwept ==
    \A c \in Conns :
       ( /\ conn[c].session # 0
         /\ conn[c].session \in DOMAIN sessions
         /\ wall_clock - session_objs[conn[c].session].last_activity > SessionTimeoutMinutes )
       ~> ( conn[c].session \notin DOMAIN sessions )

\* C16: after each received audio segment has been handled (the loop is
\* back at awaiting audio) the session's last_activity is not earlier than
\* the arrival of that segment, whatever the outcome of the turn.
C16_ActivityRefreshedEveryTurn ==
    \A c \in Conns :
       ( /\ conn[c].pc = "awaiting"
         /\ conn[c].segments > 0
         /\ conn[c].session \in DOMAIN sessions )
       => session_objs[conn[c].session].last_activity >= conn[c].segment_at

\* whether the turn m is in the list msgs (object identity)
Holds(msgs, m) == \E j \in 1..Len(msgs) : msgs[j].uid = m.uid

\* the candidate set of the compression pass: the important turns and the 4
\* most recent ones, each once, by timestamp
CompressCandidates(msgs) ==
    SortByTimestamp(CombineDedup(ImportantOf(msgs), LastN(msgs, 4)))

\* C17: whenever the token-compression pass has dropped an important turn,
\* no turn that is neither important nor among the 4 most recent turns is
\* left in the retained set.
C17_ImportantOutlivesOld ==
    last_compress.ran =>
       LET input == last_compress.input
           output == last_compress.output
           recent == LastN(input, 4)
       IN /\ \A j \in 1..Len(output) : Holds(input, output[j])
          /\ (\E i \in 1..Len(input) : input[i].important /\ ~Holds(output, input[i]))
                => \A j \in 1..Len(output) :
                      output[j].important \/ Holds(recent, output[j])

C17_Witness ==
    /\ last_compress.ran
    /\ \E i \in 1..Len(last_compress.input) :
          /\ last_compress.input[i].important
          /\ ~Holds(last_compress.output, last_compress.input[i])
    /\ \E i \in 1..Len(last_compress.input) :
          /\ ~last_compress.input[i].important
          /\ ~Holds(LastN(last_compress.input, 4), last_compress.input[i])
    /\ Len(last_compress.output) >= 2

\* C18: a turn marked important that is in messages is still in messages
\* after the next add_message call, whichever passes run.
C18_ImportantAlwaysKept ==
    [][adds' = adds + 1 =>
         \A i \in 1..Len(messages) :
            messages[i].important => Holds(messages', messages[i])
      ]_vars

\* C19: after every add_message call total_tokens <= max_tokens or at most
\* 2 turns are retained; the compression pass leaves the candidate set with
\* its oldest elements dropped, as few as make the total fit or leave 2
\* elements, and never fewer than 2 of a candidate set of 2 or more.
C19_CompressionStopsAtTwo ==
    /\ total_tokens <= mem_cfg.max_tokens \/ Len(messages) <= 2
    /\ last_compress.ran =>
         LET combined == CompressCandidates(last_compress.input)
             output == last_compress.output
             n == Len(output)
         IN /\ n <= Len(combined)
            /\ output = LastN(combined, n) \/ (n = 0 /\ combined = <<>>)
            /\ _calculate_total_tokens(output) <= mem_cfg.max_tokens \/ n <= 2
            /\ n < Len(combined) =>
                  /\ n >= 2
                  /\ _calculate_total_tokens(SubSeq(combined, Len(combined) - n, Len(combined)))
                        > mem_cfg.max_tokens
            /\ Len(combined) >= 2 => n >= 2

C19_Witness ==
    /\ last_compress.ran
    /\ Len(last_compress.output) = 2
    /\ Len(CompressCandidates(last_compress.input)) = 4
    /\ total_tokens > mem_cfg.max_tokens
    /\ Len(messages) = 2

\* C20: for every memory state and every tokenLimit >= 0, get_context
\* returns, oldest first and reduced to role and content, the longest suffix
\* of the retained turns whose token estimates sum to at most tokenLimit.
C20_ContextIsLongestFittingSuffix ==
    (last_context.called /\ last_context.max_tokens >= 0) =>
       LET limit == last_context.max_tokens
           context == last_context.context
           k == Len(context)
           n == Len(messages)
           suffix == SubSeq(messages, n - k + 1, n)
       IN /\ k <= n
          /\ \A i \in 1..k : /\ context[i].role = suffix[i].role
                             /\ context[i].len = suffix[i].len
                             /\ DOMAIN context[i] = {"role", "len"}
          /\ _calculate_total_tokens(suffix) <= limit
          /\ k < n => _calculate_total_tokens(suffix) + messages[n - k].tokens > limit

\* C21: get_context is read-only and idempotent: a call changes neither
\* messages nor total_tokens, and as long as no add_message or clear has
\* followed, a further call with the same limit returns the result of the
\* call before.
C21_GetContextReadOnlyIdempotent ==
    [][/\ last_context'.called =>
            get_context(messages', mem_cfg', last_context'.max_tokens) = last_context'.context
       /\ (last_context'.called /\ last_context' # last_context) =>
            /\ messages' = messages
            /\ total_tokens' = total_tokens
            /\ mem_cfg' = mem_cfg
      ]_vars

C21_Witness ==
    /\ last_context.called
    /\ Len(last_context.context) >= 1
    /\ Len(last_context.context) < Len(messages)
    /\ last_context.max_tokens > 0

\* C22: with max_messages = N >= 1, summarize_threshold > N and the token
\* budget not exceeded, adding a non-important turn to a memory that holds
\* at most N non-important turns leaves the last min(n + 1, N) turns of the
\* extended list, in their order; so k such turns added in order leave the
\* last min(k, N) of them.
C22_TrimKeepsLastAdded ==
    [][LET N == mem_cfg.max_messages
           added == {j \in 1..Len(messages') : messages'[j].uid = adds'}
       IN ( /\ adds' = adds + 1
            /\ N >= 1
            /\ mem_cfg.summarize_threshold > N
            /\ "compress" \notin last_passes'
            /\ Len(messages) <= N
            /\ \A i \in 1..Len(messages) :
                  ~messages[i].important /\ ~messages[i].is_summary
            /\ added = {} \/ \E j \in added : ~messages'[j].important )
          => /\ Len(messages') = Min(Len(messages) + 1, N)
             /\ messages'[Len(messages')].uid = adds'
             /\ messages' = LastN(Append(messages, messages'[Len(messages')]), N)
      ]_vars

C22_Witness ==
    /\ mem_cfg.max_messages = 3
    /\ mem_cfg.summarize_threshold > 3
    /\ adds = 5
    /\ Len(messages) = 3
    /\ \A i \in 1..3 : messages[i].uid = i + 2 /\ ~messages[i].important
    /\ last_passes = {"trim"}

\* C23: a ConversationMemory with unusable limits (max_messages <= 0 or
\* max_tokens <= 0) is refused at construction, so no instance with such
\* limits ever accepts an add_message call.
C23_UnusableLimitsRefused ==
    (mem_cfg.max_messages <= 0 \/ mem_cfg.max_tokens <= 0) => adds = 0

\* ---- what the rules of needs_context look at in a question ----
\* a reference token stands in the question as a word of its own
HasReferenceToken(q) == any_in(reference_words, with_spaces(strip(lower(q))))

\* a follow-up-indicator phrase occurs in the question
HasFollowUpPhrase(q) == any_in(follow_up_indicators, strip(lower(q)))

\* a generic context keyword occurs in the question
HasContextKeyword(q) == any_in(context_keywords, strip(lower(q)))

\* the question shares a topic token with the last 4 turns of the history
SharesTopic(q, history) ==
    ToSet(_extract_topics(slice_from(history, 0 - 4)))
        \cap ToSet(_extract_topics_from_text(strip(lower(q)))) # {}

\* the question starts with a standalone-question prefix
HasStandalonePrefix(q) == _is_standalone_question(strip(lower(q)))

\* C24: over an empty history needs_context is false and
\* get_relevant_context returns None, for every question, whatever
\* reference words or follow-up phrases it contains.
C24_EmptyHistoryNeedsNoContext ==
    (an_last.called /\ an_history = <<>>) =>
        /\ ~an_last.needs
        /\ an_last.op = "get_relevant_context" => an_last.context = NoneContext

\* get_relevant_context was asked "it also" (a reference word and a
\* follow-up phrase) over an empty history
C24_Witness ==
    /\ an_last.called
    /\ an_history = <<>>
    /\ an_last.op = "get_relevant_context"
    /\ an_last.question = <<"i", "t", " ", "a", "l", "s", "o">>
    /\ HasReferenceToken(an_last.question)
    /\ HasFollowUpPhrase(an_last.question)

\* C25: over a non-empty history the rules apply in order and the first
\* match wins: a question with a reference token or a follow-up phrase
\* needs context even when it starts with a standalone prefix, and a
\* question that starts with a standalone prefix and triggers none of the
\* earlier rules (reference token, follow-up phrase, topic overlap together
\* with a context keyword) needs none.
C25_FirstMatchWins ==
    (an_last.called /\ an_history # <<>>) =>
        LET q == an_last.question
        IN  /\ (HasReferenceToken(q) \/ HasFollowUpPhrase(q)) => an_last.needs
            /\ ( /\ HasStandalonePrefix(q)
                 /\ ~HasReferenceToken(q)
                 /\ ~HasFollowUpPhrase(q)
                 /\ ~(SharesTopic(q, an_history) /\ HasContextKeyword(q)) )
               => ~an_last.needs

\* C26: over a non-empty history, a question with no reference token and
\* no follow-up phrase needs context only if it shares a topic token with
\* the last 4 turns and also contains a context keyword; a context keyword
\* without a shared topic gives false.
C26_KeywordNeedsSharedTopic ==
    ( /\ an_last.called
      /\ an_history # <<>>
      /\ ~HasReferenceToken(an_last.question)
      /\ ~HasFollowUpPhrase(an_last.question) )
    => (an_last.needs =>
            /\ SharesTopic(an_last.question, an_history)
            /\ HasContextKeyword(an_last.question))

\* the n most recent elements of xs, all of them when there are fewer
MostRecent(xs, n) == SubSeq(xs, Len(xs) - Min(n, Len(xs)) + 1, Len(xs))

\* C27: get_relevant_context returns None exactly when needs_context is
\* false; otherwise it returns the most recent min(max_messages, len)
\* turns of the history, never more than max_messages of them, for every
\* max_messages >= 0.
C27_RelevantContextIsBoundedSuffix ==
    (an_last.called /\ an_last.op = "get_relevant_context") =>
        /\ an_last.context.none <=> ~an_last.needs
        /\ ~an_last.context.none =>
              /\ an_last.context.turns = MostRecent(an_history, an_last.max_messages)
              /\ Len(an_last.context.turns) <= an_last.max_messages

\* the calls before call i that were admitted for the same identifier with
\* a timestamp in the window of w seconds that ends at call i
AdmittedBefore(i, w) ==
    {j \in 1..(i - 1) : /\ rl_calls[j].allowed
                        /\ rl_calls[j].id = rl_calls[i].id
                        /\ rl_calls[j].time > rl_calls[i].time - w}

\* C28: exhausting the minute window does not block later windows: a call
\* made when fewer than requests_per_minute admitted timestamps lie in the
\* trailing 60 s, with the hour and day counts of admitted timestamps below
\* their ceilings, is admitted; rejected calls are not recorded, so they
\* neither extend the block nor count toward the hour or day windows.
C28_MinuteBlockEnds ==
    \A i \in 1..Len(rl_calls) :
       LET e == rl_calls[i]
       IN /\ ( /\ Cardinality(AdmittedBefore(i, MinuteWindow)) < rl_cfg.requests_per_minute
               /\ Cardinality(AdmittedBefore(i, HourWindow)) < rl_cfg.requests_per_hour
               /\ Cardinality(AdmittedBefore(i, DayWindow)) < rl_cfg.requests_per_day )
             => e.allowed
          /\ ~e.allowed => e.after = Newer(e.before, e.time - DayWindow)
          /\ Len(e.after) = Cardinality(AdmittedBefore(i, DayWindow))
                              + (IF e.allowed THEN 1 ELSE 0)

\* an identifier was admitted, then rejected for the minute ceiling while
\* below the hour and day ceilings, and admitted again once the minute had passed
C28_Witness ==
    \E i, j, k \in 1..Len(rl_calls) :
       /\ i < j /\ j < k
       /\ rl_calls[i].id = rl_calls[j].id /\ rl_calls[j].id = rl_calls[k].id
       /\ rl_calls[i].allowed
       /\ ~rl_calls[j].allowed /\ rl_calls[j].reason.period = "minute"
       /\ Cardinality(AdmittedBefore(j, HourWindow)) < rl_cfg.requests_per_hour
       /\ Cardinality(AdmittedBefore(j, DayWindow)) < rl_cfg.requests_per_day
       /\ rl_calls[k].allowed
       /\ rl_calls[k].time >= rl_calls[j].time + MinuteWindow
       /\ rl_calls[k].time < rl_calls[j].time + HourWindow

\* C29: get_remaining_requests leaves the limiter as it found it: the
\* identifiers request_history has a key for and every timestamp list are
\* the same before and after the call, for known and for never-seen
\* identifiers and for every period; the number returned is
\* max(0, ceiling - count of timestamps in the trailing window of the period).
C29_RemainingDoesNotMutate ==
    [][rl_last'.called =>
         /\ rl_keys' = rl_keys
         /\ request_history' = request_history
         /\ rl_last'.period \in {"minute", "hour", "day"} =>
              LET limit == IF rl_last'.period = "minute" THEN rl_cfg.requests_per_minute
                           ELSE IF rl_last'.period = "hour" THEN rl_cfg.requests_per_hour
                           ELSE rl_cfg.requests_per_day
                  w == IF rl_last'.period = "minute" THEN MinuteWindow
                       ELSE IF rl_last'.period = "hour" THEN HourWindow
                       ELSE DayWindow
                  count == WindowCount(request_history[rl_last'.id], rl_now, w)
              IN rl_last'.result = Max(0, limit - count)
      ]_vars

\* C30: reconnect_attempts is set to zero only by a successful reconnect
\* (not by a failed or exhausted sequence, a rejected call, a disabled
\* auto-reconnect or reset), and while a sequence runs it reflects the
\* attempts made so far: the attempts that have failed, or the attempt
\* under way as well.
C30_CounterReflectsAttempts ==
    \A p \in Callers :
       (rc[p].started /\ rc[p].pc \in {"sleeping", "invoking"}) =>
           reconnect_attempts \in {Len(rc[p].outcomes), rc[p].attempt}

\* C31: with the voice-activity gate enabled, when the gate reports the end
\* of speech for a received chunk, the loop enters transcription with the
\* audio accumulated since the previous boundary: those chunks are what the
\* STT collaborator is given.
C31_SpeechEndEntersTranscription ==
    \A c \in Conns :
       (conn[c].vad_enabled /\ conn[c].boundary # <<>> /\ conn[c].pc # "closed") =>
           /\ conn[c].pc = "stt"
           /\ conn[c].combined_audio = conn[c].boundary

\* the instants at which a trailing window is looked at: every call made so
\* far, and now
WindowEnds == {rl_calls[i].time : i \in 1..Len(rl_calls)} \cup {rl_now}

\* the admitted requests of identifier id with a timestamp in (t - w, t]
AdmittedWithin(id, t, w) ==
    {j \in 1..Len(rl_calls) : /\ rl_calls[j].allowed
                              /\ rl_calls[j].id = id
                              /\ rl_calls[j].time > t - w
                              /\ rl_calls[j].time <= t}

\* C32: for every identifier and every sequence of is_allowed calls with
\* non-decreasing timestamps, the admitted requests with a timestamp in a
\* trailing window (t-60, t], (t-3600, t] or (t-86400, t] never outnumber
\* requests_per_minute, requests_per_hour or requests_per_day, and the list
\* kept for an identifier holds at most requests_per_day entries after a call.
C32_WindowsNeverOverfilled ==
    /\ \A id \in Identifiers : \A t \in WindowEnds :
         /\ Cardinality(AdmittedWithin(id, t, MinuteWindow)) <= rl_cfg.requests_per_minute
         /\ Cardinality(AdmittedWithin(id, t, HourWindow)) <= rl_cfg.requests_per_hour
         /\ Cardinality(AdmittedWithin(id, t, DayWindow)) <= rl_cfg.requests_per_day
    /\ \A i \in 1..Len(rl_calls) : Len(rl_calls[i].after) <= rl_cfg.requests_per_day

\* an identifier has filled its day: requests_per_day admitted requests lie
\* in the trailing day, the list holds as many, and a further call was rejected for the day
C32_Witness ==
    \E id \in Identifiers :
       /\ Cardinality(AdmittedWithin(id, rl_now, DayWindow)) = rl_cfg.requests_per_day
       /\ Len(request_history[id]) = rl_cfg.requests_per_day
       /\ \E i \in 1..Len(rl_calls) :
             /\ rl_calls[i].id = id
             /\ ~rl_calls[i].allowed
             /\ rl_calls[i].reason.period = "day"

\* `after` is `before` with all turns but the 4 most recent replaced by one
\* synthetic system turn, made of those turns and placed first
SummarizedInto(before, after) ==
    /\ Len(after) = 5
    /\ after[1].is_summary /\ ~after[1].important /\ after[1].role = "system"
    /\ after[1].len = SummaryPrefixLen + _create_summary(AllButLastN(before, 4))
    /\ SubSeq(after, 2, 5) = LastN(before, 4)

\* C33: when an add_message leaves more than summarize_threshold turns, and
\* more than 4, the summarization pass replaces all turns but the 4 most
\* recent (an earlier summary among them) by exactly one synthetic system
\* turn (is_summary, not important) placed before them, keeps the 4 most
\* recent unchanged and in order, and recomputes total_tokens over the
\* resulting 5 turns.  The result of the pass is what add_message leaves
\* when no later pass runs, and what the later passes are given.
C33_SummaryReplacesAllButFour ==
    [][( /\ adds' = adds + 1
         /\ Len(messages) + 1 > mem_cfg.summarize_threshold
         /\ Len(messages) + 1 > 4 )
       => LET pass == last_summarize'
          IN /\ pass.ran
             /\ Len(pass.input) = Len(messages) + 1
             /\ SubSeq(pass.input, 1, Len(messages)) = messages
             /\ pass.input[Len(pass.input)].uid = adds'
             /\ SummarizedInto(pass.input, pass.output)
             /\ pass.total_tokens = _calculate_total_tokens(pass.output)
             /\ "summarize" \in last_passes'
             /\ last_passes' = {"summarize"} =>
                   /\ messages' = pass.output
                   /\ total_tokens' = pass.total_tokens
             /\ last_compress'.ran => last_compress'.input = pass.output
             /\ last_passes' = {"summarize", "trim"} =>
                   /\ Len(messages') = mem_cfg.max_messages
                   /\ \A i \in 1..Len(messages') : Holds(pass.output, messages'[i])
      ]_vars

\* the seventh turn was added with summarize_threshold 5: the pass found the
\* summary made of the first two turns at the sixth add, followed by five
\* turns, and left one new summary of that summary and the third turn
\* before the 4 most recent turns
C33_Witness ==
    /\ mem_cfg.summarize_threshold = 5
    /\ adds = 7
    /\ last_passes = {"summarize"}
    /\ last_summarize.ran
    /\ Len(last_summarize.input) = 6
    /\ last_summarize.input[1].is_summary
    /\ last_summarize.input[2].uid = 3
    /\ messages = last_summarize.output
    /\ messages[1].is_summary
    /\ \A i \in 2..5 : messages[i].uid = i + 2

\* C34: in a reconnection sequence the i-th invocation of the reconnect
\* action is preceded by a wait of exactly base_delay * 2^(i-1): the first
\* attempt waits base_delay, each later wait is twice the previous one, and
\* no invocation happens without its wait having completed.
C34_ExponentialBackoff ==
    \A p \in Callers :
       LET waits == rc[p].waits
           invoked == Len(rc[p].outcomes) + (IF rc[p].pc = "invoking" THEN 1 ELSE 0)
       IN /\ rc[p].pc # "cancelled" => invoked = Len(waits)
          /\ invoked <= Len(waits)
          /\ waits # <<>> => waits[1] = rc_cfg.base_delay
          /\ \A i \in 1..(Len(waits) - 1) : waits[i + 1] = 2 * waits[i]

\* a caller is in its third invocation after two failures, with base_delay 3
C34_Witness ==
    \E p \in Callers :
       /\ rc_cfg.base_delay = 3
       /\ rc[p].pc = "invoking"
       /\ rc[p].outcomes = <<"fail", "fail">>
       /\ rc[p].waits = <<3, 6, 12>>

\* the turns appended to a connection's memory before the turn under way,
\* as role and content
EarlierTurns(c) ==
    LET pre == AllButLastN(conn[c].memory.messages, 1)
    IN [i \in 1..Len(pre) |->
          [role |-> pre[i].role,
           content |-> IF pre[i].role = "user" THEN UserSaid ELSE LlmReplied]]

\* C35: in every turn the context handed to the LLM is either empty or the
\* last min(2, n) turns of the memory context as it was before the current
\* user turn was appended: never the current question, never more than 2
\* turns, and with every append of the connection's earlier turns in it.
C35_ContextIsRecentSlice ==
    \A c \in Conns :
       conn[c].pc = "llm_call" =>
          /\ Len(conn[c].memory.messages)
                = conn[c].user_appended + conn[c].assistant_appended
          /\ Len(conn[c].context.turns) <= 2
          /\ \/ conn[c].context = NoneContext
             \/ /\ ~conn[c].context.none
                /\ conn[c].context.turns = MostRecent(EarlierTurns(c), 2)

\* a connection in its third turn, after two turns that were answered: of
\* the 4 turns in its memory before this one, the context is the last exchange
C35_Witness ==
    \E c \in Conns :
       /\ conn[c].pc = "llm_call"
       /\ conn[c].user_appended = 3
       /\ conn[c].assistant_appended = 2
       /\ Len(EarlierTurns(c)) = 4
       /\ ~conn[c].context.none
       /\ conn[c].context.turns = << [role |-> "user", content |-> UserSaid],
                                    [role |-> "assistant", content |-> LlmReplied] >>

\* C36: with summarize_threshold > max_messages >= 1, as shipped (15 > 10),
\* no sequence of add_message calls triggers the summarization pass:
\* messages never holds a summary turn, because the count-trim pass keeps
\* the length at or below max_messages before the threshold can be exceeded.
C36_TrimPreventsSummary ==
    (mem_cfg.summarize_threshold > mem_cfg.max_messages /\ mem_cfg.max_messages >= 1) =>
        /\ "summarize" \notin last_passes
        /\ \A i \in 1..Len(messages) : ~messages[i].is_summary

\* more turns were added than summarize_threshold, and the count-trim pass
\* has just cut the list back to max_messages
C36_Witness ==
    /\ mem_cfg.summarize_threshold > mem_cfg.max_messages
    /\ adds > mem_cfg.summarize_threshold + 1
    /\ "trim" \in last_passes
    /\ Len(messages) = mem_cfg.max_messages

\* C37: after any sequence of add_message calls the non-summary turns of
\* messages appear without duplicates in the order in which they were added
\* (uid is the position in the insertion sequence), with the tokens they were
\* created with, and messages holds at most one summary turn, which, if
\* present, is the first element.
C37_InsertionOrderKept ==
    /\ \A i, j \in 1..Len(messages) :
          (i < j /\ ~messages[i].is_summary /\ ~messages[j].is_summary)
             => messages[i].uid < messages[j].uid
    /\ \A i \in 1..Len(messages) :
          ~messages[i].is_summary =>
             /\ messages[i].uid \in 1..adds
             /\ messages[i].tokens = _estimate_tokens(messages[i].len)
    /\ Cardinality({i \in 1..Len(messages) : messages[i].is_summary}) <= 1
    /\ \A i \in 1..Len(messages) : messages[i].is_summary => i = 1

\* C38: turns are isolated with respect to audio: the STT input of a turn
\* holds only audio received after the previous turn (here, with one chunk
\* per turn, the chunk just received), so the audio of a turn whose STT call
\* failed is never submitted again, and the accumulation buffer is empty
\* whenever the loop is back at awaiting audio after a processed segment.
C38_AudioIsolatedBetweenTurns ==
    \A c \in Conns :
       ~conn[c].vad_enabled =>
          /\ conn[c].pc = "stt" => conn[c].combined_audio = << conn[c].segments >>
          /\ (conn[c].pc = "awaiting" /\ conn[c].last_turn # "none")
                => conn[c].audio_chunks = <<>>

\* C39: creating a session never replaces or orphans a live one: after any
\* sequence of create_session, get_session, get_or_create_session,
\* remove_session and sweep calls, every session object that was created and
\* not removed (still active) is retrievable under its id, and every session
\* object that is no longer in the registry has is_active = false.
C39_LiveSessionsStayRegistered ==
    \A k \in DOMAIN session_objs :
       /\ session_objs[k].is_active
             => /\ session_objs[k].session_id \in DOMAIN sessions
                /\ sessions[session_objs[k].session_id] = k
       /\ (\A sid \in DOMAIN sessions : sessions[sid] # k)
             => ~session_objs[k].is_active

TurnSteps == {"stt", "stt_call", "llm", "llm_call", "tts", "tts_call"}

\* the connection's session has been removed from the registry while its
\* loop is still running
Unregistered(c) ==
    /\ conn[c].session # 0
    /\ conn[c].pc # "closed"
    /\ conn[c].session \notin DOMAIN sessions

\* C40: a connection loop handles turns only for a registered, active
\* session: once the idle sweep or a remove_session has removed the
\* connection's session from the registry, the connection starts no turn and
\* takes no further step of one (no STT/LLM/TTS call), appends nothing to its
\* memory and does not increment the session's conversation counter.
C40_NoTurnAfterRemoval ==
    [][\A c \in Conns :
         Unregistered(c) =>
            /\ conn'[c].pc \in TurnSteps => conn'[c].pc = conn[c].pc
            /\ conn'[c].memory = conn[c].memory
            /\ session_objs'[conn[c].session].conversation_count
                  = session_objs[conn[c].session].conversation_count]_vars

====
